---- MODULE Spec2Model ----
(***************************************************************************)
(* Model of the activetigger browser client: the HTTP client wrapper with  *)
(* its auth middleware, the authentication entry points (login, logout,    *)
(* me), the domain operation hooks of core/api, the async-resource hook    *)
(* and the projection refresh effect of ProjectionManagement.              *)
(*                                                                         *)
(* The repository holds two revisions of core/api.ts:                      *)
(*   "core"   : src/frontend/src/core/api.ts                               *)
(*   "bundle" : the copy in src/frontend/src/components/                   *)
(*              SimpleModelManagement.tsx (lines 236-1509)                 *)
(* Definitions of the first carry the suffix _core.                        *)
(***************************************************************************)
EXTENDS Integers, Sequences, FiniteSets, TLC

(***************************************************************************)
(* Bounds and value domains                                                *)
(***************************************************************************)
Revisions == {"core", "bundle"}
MaxCalls == 2
MaxInvocations == 3
MaxPolls == 11
Tokens == {"t1", "t2"}
Usernames == {"alice"}

\* JavaScript values: undefined / null are the empty tuple, a value v is <<v>>
Undefined == <<>>
Some(v) == <<v>>
JsTrue == <<"true">>
JsFalse == <<"false">>
Truthy(x) == x \notin {Undefined, Some(""), JsFalse}

(***************************************************************************)
(* Results of the openapi-fetch client: {data, error, response}            *)
(***************************************************************************)
\* error values: undefined (no error), or the parsed error body, an object
\* with or without a detail member
ErrUndefined == [kind |-> "undefined", detail |-> Undefined]
ErrObject(detail) == [kind |-> "object", detail |-> detail]
ErrTruthy(e) == e.kind = "object"
ServerDetails == {"Incorrect username or password"}
ErrorValues == {ErrObject(Undefined)} \cup {ErrObject(Some(d)) : d \in ServerDetails}

OkStatuses == {200, 204}
ErrorStatuses == {401, 500}
Statuses == OkStatuses \cup ErrorStatuses

\* every call resolves to either {data} (2xx) or {error, response}
ApiResults(payloads) ==
  [status : OkStatuses, data : {Some(p) : p \in payloads}, error : {ErrUndefined}]
    \cup [status : ErrorStatuses, data : {Undefined}, error : ErrorValues]

\* x + '' of JavaScript
PlusEmptyString(x) == IF x = Undefined THEN "undefined" ELSE x[1]

(***************************************************************************)
(* Outcome of a call: a returned value or a raised exception               *)
(***************************************************************************)
Return(v) == [kind |-> "return", status |-> 0, message |-> "", value |-> v]
HttpError(status, message) ==
  [kind |-> "HttpError", status |-> status, message |-> message, value |-> Undefined]
Error(message) == [kind |-> "Error", status |-> 0, message |-> message, value |-> Undefined]
TypeError == [kind |-> "TypeError", status |-> 0, message |-> "", value |-> Undefined]
NoOutcome == [kind |-> "none", status |-> 0, message |-> "", value |-> Undefined]
Throws(out) == out.kind \in {"HttpError", "Error", "TypeError"}

(***************************************************************************)
(* Persisted credential: local storage key 'activeTigger.auth'             *)
(***************************************************************************)
\* the item is null (no item) or the JSON text of {username, access_token}
NoItem == <<>>
JSONstringify(user) == <<user.username, user.access_token>>
NullUser == [username |-> "", access_token |-> ""]
JSONparse(text) == [username |-> text[1], access_token |-> text[2]]
StoredItems ==
  {NoItem} \cup {JSONstringify([username |-> u, access_token |-> t]) : u \in Usernames, t \in Tokens}

(***************************************************************************)
(* Request headers and the auth middleware                                 *)
(***************************************************************************)
HeaderNames == {"Authorization", "Content-Type"}
NullHeader == "null"
NoHeaders == [h \in HeaderNames |-> NullHeader]
Bearer(token) == "Bearer " \o token
FormUrlEncoded == "application/x-www-form-urlencoded"

\* Auth Header Provider: header map containing the bearer token, or nothing
getAuthHeaders(user) ==
  IF user = NullUser THEN Undefined ELSE Some([Authorization |-> Bearer(user.access_token)])

\* onRequest of core/api.ts: every auth header is set on the request
authMiddleware_core(headers, item) ==
  LET authenticatedUser == IF item # NoItem THEN JSONparse(item) ELSE NullUser
  IN IF authenticatedUser # NullUser
     THEN LET authHeaders == getAuthHeaders(authenticatedUser)
          IN IF authHeaders # Undefined
             THEN [h \in HeaderNames |->
                     IF h \in DOMAIN authHeaders[1] THEN authHeaders[1][h] ELSE headers[h]]
             ELSE headers
     ELSE headers

\* a middleware that ignores the stored credential
authMiddlewareNoCredential(headers, item) == headers

\* onRequest of the bundled revision: only headers the request does not carry
authMiddleware(headers, item) ==
  LET authenticatedUser == IF item # NoItem THEN JSONparse(item) ELSE NullUser
  IN IF authenticatedUser # NullUser
     THEN LET authHeaders == getAuthHeaders(authenticatedUser)
          IN IF authHeaders # Undefined
             THEN [h \in HeaderNames |->
                     IF h \in DOMAIN authHeaders[1] /\ headers[h] = NullHeader
                     THEN authHeaders[1][h] ELSE headers[h]]
             ELSE headers
     ELSE headers

\* api.use(authMiddleware): the interception step of the built revision
onRequest(revision, headers, item) ==
  IF revision = "core" THEN authMiddleware_core(headers, item) ELSE authMiddleware(headers, item)

(***************************************************************************)
(* Authentication entry points                                             *)
(***************************************************************************)
loginHeaders == [NoHeaders EXCEPT !["Content-Type"] = FormUrlEncoded]
tokenHeaders(token) == [NoHeaders EXCEPT !["Authorization"] = Bearer(token)]

\* a login that raises its HttpError without the detail of the response
loginNoDetail(res) ==
  IF Truthy(res.data) /\ ~ErrTruthy(res.error)
  THEN Return(res.data)
  ELSE HttpError(res.status, "")

\* login: the token of the response, or an HttpError(status, error.detail + '')
login(res) ==
  IF Truthy(res.data) /\ ~ErrTruthy(res.error)
  THEN Return(res.data)
  ELSE IF res.error = ErrUndefined
       THEN TypeError
       ELSE HttpError(res.status, PlusEmptyString(res.error.detail))

\* a logout that accepts every 2xx status
logoutAnyOk(status) ==
  IF status \in OkStatuses THEN Return(JsTrue) ELSE HttpError(status, "could not logout")

\* logout: true on status 200, an HttpError otherwise
logout(status) ==
  IF status = 200 THEN Return(JsTrue) ELSE HttpError(status, "could not logout")

\* me: the user of the response, or an HttpError(status, '')
me(res) ==
  IF Truthy(res.data) THEN Return(res.data) ELSE HttpError(res.status, "")

\* login flow of the auth context: a returned token is persisted
persistLogin(out, username, item) ==
  IF out.kind = "return"
  THEN JSONstringify([username |-> username, access_token |-> out.value[1]])
  ELSE item

\* logout flow of the auth context: the credential is cleared once logout returns
clearOnLogout(out, item) == IF out.kind = "return" THEN NoItem ELSE item

(***************************************************************************)
(* Domain operation hooks                                                  *)
(*                                                                         *)
(* A hook function is modelled by the effects of one invocation answered   *)
(* by res: the requests it issues (http), the notifications it emits       *)
(* (notes), the files it saves (saves), the other functions it calls       *)
(* (also) and its outcome (out).  The                                      *)
(* parameters of the hook are props.projectSlug and props.scheme, the      *)
(* arguments of the call are args.name and args.format.                    *)
(***************************************************************************)
Note(type, message) == [type |-> type, message |-> message]
EffAlso(http, notes, saves, out, also) ==
  [http |-> http, notes |-> notes, saves |-> saves, out |-> out, also |-> also]
Eff(http, notes, saves, out) == EffAlso(http, notes, saves, out, <<>>)
Saved(data, name) == [data |-> data, name |-> name]

\* res.error.detail ? res.error.detail.map((d) => d.msg).join('; ') : res.error.toString()
detailMessage(error) == IF error.detail # Undefined THEN error.detail[1] ELSE "[object Object]"

useCreateProject(props, args, res) ==
  Eff(<<"/projects/new">>,
      IF ~ErrTruthy(res.error) THEN <<Note("success", "Project created")>> ELSE <<>>,
      <<>>,
      IF ~ErrTruthy(res.error) THEN Return(Undefined) ELSE Error(detailMessage(res.error)))

useCreateTestSet(props, args, res) ==
  Eff(<<"/projects/testset">>,
      IF ~ErrTruthy(res.error) THEN <<Note("success", "Test data set uploaded")>> ELSE <<>>,
      <<>>,
      IF ~ErrTruthy(res.error) THEN Return(Undefined) ELSE Error(detailMessage(res.error)))

\* a deleteProject that raises on an error response as createProject does
useDeleteProjectThrowing(props, args, res) ==
  Eff(<<"/projects/delete">>,
      IF ~ErrTruthy(res.error) THEN <<Note("success", "Project deleted")>> ELSE <<>>,
      <<>>,
      IF ~ErrTruthy(res.error) THEN Return(Undefined) ELSE Error(detailMessage(res.error)))

useDeleteProject(props, args, res) ==
  Eff(<<"/projects/delete">>,
      IF ~ErrTruthy(res.error) THEN <<Note("success", "Project deleted")>> ELSE <<>>,
      <<>>,
      Return(Undefined))

useDeleteScheme(props, args, res) ==
  IF Truthy(props.scheme)
  THEN Eff(<<"/schemes/delete">>,
           IF ~ErrTruthy(res.error) THEN <<Note("success", "Scheme deleted")>> ELSE <<>>,
           <<>>, Return(Undefined))
  ELSE Eff(<<>>, <<>>, <<>>, Return(Undefined))

useAddScheme(props, args, res) ==
  IF Truthy(args.name)
  THEN Eff(<<"/schemes/add">>,
           IF ~ErrTruthy(res.error) THEN <<Note("success", "Scheme add")>> ELSE <<>>,
           <<>>, Return(JsTrue))
  ELSE Eff(<<>>, <<>>, <<>>, Return(Undefined))

useDeleteFeature_core(props, args, res) ==
  IF Truthy(args.name)
  THEN Eff(<<"/features/delete">>,
           IF ~ErrTruthy(res.error) THEN <<Note("success", "Features deleted")>> ELSE <<>>,
           <<>>, Return(JsTrue))
  ELSE Eff(<<>>, <<>>, <<>>, Return(Undefined))

useDeleteFeature(props, args, res) ==
  IF Truthy(args.name) /\ Truthy(props.projectSlug)
  THEN Eff(<<"/features/delete">>,
           IF ~ErrTruthy(res.error) THEN <<Note("success", "Features deleted")>> ELSE <<>>,
           <<>>, Return(JsTrue))
  ELSE Eff(<<>>, <<>>, <<>>, Return(JsFalse))

useGetNextElementId_core(props, args, res) ==
  Eff(<<"/elements/next">>, <<>>, <<>>, Return(res.data))

\* a getNextElementId that skips the call silently
useGetNextElementIdSilent(props, args, res) ==
  IF Truthy(props.projectSlug) /\ Truthy(props.scheme)
  THEN Eff(<<"/elements/next">>, <<>>, <<>>, Return(res.data))
  ELSE Eff(<<>>, <<>>, <<>>, Return(Undefined))

useGetNextElementId(props, args, res) ==
  IF Truthy(props.projectSlug) /\ Truthy(props.scheme)
  THEN Eff(<<"/elements/next">>, <<>>, <<>>, Return(res.data))
  ELSE Eff(<<>>, <<Note("error", "Select a project/scheme to get elements")>>, <<>>,
           Return(Undefined))

useGetElementById_core(props, args, res) ==
  Eff(<<"/elements/{element_id}">>, <<>>, <<>>,
      IF ~ErrTruthy(res.error) THEN Return(res.data) ELSE Return(Undefined))

useGetElementById(props, args, res) ==
  IF Truthy(props.projectSlug) /\ Truthy(props.scheme)
  THEN Eff(<<"/elements/{element_id}">>, <<>>, <<>>,
           IF ~ErrTruthy(res.error) THEN Return(res.data) ELSE Return(Undefined))
  ELSE Eff(<<>>, <<>>, <<>>, Return(Undefined))

useAddLabel_core(props, args, res) ==
  Eff(<<"/schemes/label/add">>,
      IF ~ErrTruthy(res.error) THEN <<Note("success", "New label created")>> ELSE <<>>,
      <<>>, Return(JsTrue))

useAddLabel(props, args, res) ==
  IF Truthy(props.projectSlug) /\ Truthy(props.scheme)
  THEN Eff(<<"/schemes/label/add">>,
           IF ~ErrTruthy(res.error) THEN <<Note("success", "New label created")>> ELSE <<>>,
           <<>>, Return(JsTrue))
  ELSE Eff(<<>>, <<>>, <<>>, Return(JsFalse))

useDeleteLabel(props, args, res) ==
  IF Truthy(props.projectSlug) /\ Truthy(props.scheme)
  THEN Eff(<<"/schemes/label/delete">>,
           IF ~ErrTruthy(res.error) THEN <<Note("success", "Label deleted")>> ELSE <<>>,
           <<>>, Return(JsTrue))
  ELSE Eff(<<>>, <<>>, <<>>, Return(JsFalse))

useRenameLabel_core(props, args, res) ==
  Eff(<<"/schemes/label/rename">>,
      IF ~ErrTruthy(res.error) THEN <<Note("success", "Label renamed")>>
      ELSE <<Note("error", "Error when renamed")>>,
      <<>>, Return(JsTrue))

useRenameLabel(props, args, res) ==
  IF Truthy(props.projectSlug) /\ Truthy(props.scheme)
  THEN Eff(<<"/schemes/label/rename">>,
           IF ~ErrTruthy(res.error) THEN <<Note("success", "Label renamed")>>
           ELSE <<Note("error", "Error when renamed")>>,
           <<>>, Return(JsTrue))
  ELSE Eff(<<>>, <<>>, <<>>, Return(JsTrue))

\* formData.features, formData.model and formData.params are args.name
useUpdateSimpleModel(props, args, res) ==
  IF Truthy(props.projectSlug) /\ Truthy(args.name) /\ Truthy(props.scheme)
  THEN Eff(<<"/models/simplemodel">>,
           IF ~ErrTruthy(res.error) THEN <<Note("warning", "Model under training")>> ELSE <<>>,
           <<>>, Return(JsTrue))
  ELSE Eff(<<>>, <<>>, <<>>, Return(JsTrue))

\* formData.features and formData.params are args.name
useUpdateProjection(props, args, res) ==
  IF Truthy(props.projectSlug) /\ Truthy(args.name) /\ Truthy(props.scheme)
  THEN Eff(<<"/elements/projection/compute">>,
           IF ~ErrTruthy(res.error) THEN <<Note("warning", "Projection under training")>>
           ELSE <<>>,
           <<>>, Return(JsTrue))
  ELSE Eff(<<>>, <<>>, <<>>, Return(JsTrue))

\* a getFeaturesFile that saves under the name of the predictions export
useGetFeaturesFileWrongName(props, args, res) ==
  IF Truthy(props.projectSlug)
  THEN Eff(<<"/export/features">>,
           IF ~ErrTruthy(res.error)
           THEN <<Note("success", "Exporting the predictions of the model")>> ELSE <<>>,
           IF ~ErrTruthy(res.error)
           THEN <<Saved(res.data, "predictions." \o args.format)>> ELSE <<>>,
           Return(JsTrue))
  ELSE Eff(<<>>, <<>>, <<>>, Return(Undefined))

useGetFeaturesFile(props, args, res) ==
  IF Truthy(props.projectSlug)
  THEN Eff(<<"/export/features">>,
           IF ~ErrTruthy(res.error)
           THEN <<Note("success", "Exporting the predictions of the model")>> ELSE <<>>,
           IF ~ErrTruthy(res.error)
           THEN <<Saved(res.data, "features." \o args.format)>> ELSE <<>>,
           Return(JsTrue))
  ELSE Eff(<<>>, <<>>, <<>>, Return(Undefined))

useGetAnnotationsFile(props, args, res) ==
  IF Truthy(props.projectSlug)
  THEN Eff(<<"/export/data">>,
           IF ~ErrTruthy(res.error)
           THEN <<Note("success", "Exporting the annotated data")>> ELSE <<>>,
           IF ~ErrTruthy(res.error)
           THEN <<Saved(res.data, "annotations." \o args.format)>> ELSE <<>>,
           Return(JsTrue))
  ELSE Eff(<<>>, <<>>, <<>>, Return(Undefined))

useGetPredictionsFile(props, args, res) ==
  IF Truthy(props.projectSlug)
  THEN Eff(<<"/export/prediction">>,
           IF ~ErrTruthy(res.error)
           THEN <<Note("success", "Exporting the predictions data")>> ELSE <<>>,
           IF ~ErrTruthy(res.error)
           THEN <<Saved(res.data, "predictions." \o args.format)>> ELSE <<>>,
           Return(JsTrue))
  ELSE Eff(<<>>, <<>>, <<>>, Return(Undefined))

\* featureType and featureParameters are args.name
useAddFeature(props, args, res) ==
  IF Truthy(args.name) /\ Truthy(props.projectSlug)
  THEN Eff(<<"/features/add">>,
           IF ~ErrTruthy(res.error)
           THEN <<Note("warning", "Features are under computation...")>> ELSE <<>>,
           <<>>, Return(JsTrue))
  ELSE Eff(<<>>, <<>>, <<>>, Return(JsFalse))

useAddAnnotation(props, args, res) ==
  IF Truthy(props.projectSlug) /\ Truthy(props.scheme)
  THEN Eff(<<"/annotation/{action}">>, <<>>, <<>>, Return(JsTrue))
  ELSE Eff(<<>>, <<>>, <<>>, Return(JsFalse))

useAddTableAnnotations(props, args, res) ==
  IF Truthy(props.projectSlug) /\ Truthy(props.scheme)
  THEN Eff(<<"/annotation/table">>,
           IF ~ErrTruthy(res.error) THEN <<Note("success", "Annotations added")>> ELSE <<>>,
           <<>>, Return(JsTrue))
  ELSE Eff(<<>>, <<>>, <<>>, Return(JsFalse))

useCreateUser(props, args, res) ==
  EffAlso(<<"/users/create">>,
          IF ~ErrTruthy(res.error) THEN <<Note("success", "User created")>> ELSE <<>>,
          <<>>, Return(JsTrue), <<"reFetchUsers">>)

\* a deleteUser that posts again after an error response
useDeleteUserRetry(props, args, res) ==
  IF Truthy(args.name)
  THEN EffAlso(IF ErrTruthy(res.error) THEN <<"/users/delete", "/users/delete">>
               ELSE <<"/users/delete">>,
               IF ~ErrTruthy(res.error) THEN <<Note("success", "User deleted")>> ELSE <<>>,
               <<>>, Return(JsTrue), <<"reFetchUsers">>)
  ELSE Eff(<<>>, <<>>, <<>>, Return(Undefined))

\* username is args.name
useDeleteUser(props, args, res) ==
  IF Truthy(args.name)
  THEN EffAlso(<<"/users/delete">>,
               IF ~ErrTruthy(res.error) THEN <<Note("success", "User deleted")>> ELSE <<>>,
               <<>>, Return(JsTrue), <<"reFetchUsers">>)
  ELSE Eff(<<>>, <<>>, <<>>, Return(Undefined))

useAddUserAuthProject(props, args, res) ==
  IF Truthy(props.projectSlug) /\ Truthy(args.name)
  THEN EffAlso(<<"/users/auth/{action}">>,
               IF ~ErrTruthy(res.error) THEN <<Note("success", "Auth deleted for user")>>
               ELSE <<>>,
               <<>>, Return(JsTrue), <<"reFetchUsersAuth">>)
  ELSE Eff(<<>>, <<>>, <<>>, Return(Undefined))

useDeleteUserAuthProject(props, args, res) ==
  IF Truthy(props.projectSlug) /\ Truthy(args.name)
  THEN EffAlso(<<"/users/auth/{action}">>,
               IF ~ErrTruthy(res.error) THEN <<Note("success", "Auth deleted for user")>>
               ELSE <<>>,
               <<>>, Return(JsTrue), <<"reFetchUsersAuth">>)
  ELSE Eff(<<>>, <<>>, <<>>, Return(Undefined))

\* dataForm is args.name
useTrainBertModel(props, args, res) ==
  IF Truthy(props.projectSlug) /\ Truthy(props.scheme) /\ Truthy(args.name)
  THEN Eff(<<"/models/bert/train">>,
           IF ~ErrTruthy(res.error) THEN <<Note("warning", "Starting bertmodel training")>>
           ELSE <<>>,
           <<>>, Return(JsTrue))
  ELSE Eff(<<>>, <<>>, <<>>, Return(Undefined))

useRenameBertModel(props, args, res) ==
  IF Truthy(props.projectSlug)
  THEN Eff(<<"/models/bert/rename">>,
           IF ~ErrTruthy(res.error) THEN <<Note("success", "Model renamed")>> ELSE <<>>,
           <<>>, Return(JsTrue))
  ELSE Eff(<<>>, <<>>, <<>>, Return(Undefined))

useDeleteBertModel(props, args, res) ==
  IF Truthy(props.projectSlug)
  THEN Eff(<<"/models/bert/delete">>,
           IF ~ErrTruthy(res.error) THEN <<Note("success", "Model deleted")>> ELSE <<>>,
           <<>>, Return(JsTrue))
  ELSE Eff(<<>>, <<>>, <<>>, Return(Undefined))

useComputeModelPrediction(props, args, res) ==
  IF Truthy(props.projectSlug)
  THEN Eff(<<"/models/bert/predict">>,
           IF ~ErrTruthy(res.error)
           THEN <<Note("warning", "Computing prediction. It can take some time.")>> ELSE <<>>,
           <<>>, Return(JsTrue))
  ELSE Eff(<<>>, <<>>, <<>>, Return(Undefined))

useReconciliate(props, args, res) ==
  IF Truthy(props.scheme) /\ Truthy(props.projectSlug)
  THEN Eff(<<"/elements/reconciliate">>,
           IF ~ErrTruthy(res.error) THEN <<Note("success", "Reconciliation done")>> ELSE <<>>,
           <<>>, Return(JsTrue))
  ELSE Eff(<<>>, <<>>, <<>>, Return(Undefined))

(***************************************************************************)
(* Producers of the read hooks (the function given to useAsyncMemo)        *)
(***************************************************************************)
\* the producer of useTableElements: it stores res.data.total besides returning the items
useTableElements(props, args, res) ==
  IF Truthy(props.scheme) /\ Truthy(props.projectSlug)
  THEN IF ~ErrTruthy(res.error)
       THEN EffAlso(<<"/elements/table">>, <<>>, <<>>, Return(res.data), <<"setTotal">>)
       ELSE Eff(<<"/elements/table">>, <<>>, <<>>, Return(Undefined))
  ELSE Eff(<<>>, <<>>, <<>>, Return(Undefined))

useUserProjects(props, args, res) ==
  IF Truthy(res.data) /\ ~ErrTruthy(res.error)
  THEN Eff(<<"/projects">>, <<>>, <<>>, Return(res.data))
  ELSE Eff(<<"/projects">>, <<Note("error", "JSON.stringify(res.error)")>>, <<>>,
           HttpError(res.status, ""))

useProject(props, args, res) ==
  IF Truthy(props.projectSlug)
  THEN Eff(<<"/projects/{project_slug}">>, <<>>, <<>>, Return(res.data))
  ELSE Eff(<<>>, <<>>, <<>>, Return(Undefined))

useStatistics(props, args, res) ==
  IF Truthy(props.projectSlug) /\ Truthy(props.scheme)
  THEN Eff(<<"/projects/{project_slug}/statistics">>, <<>>, <<>>, Return(res.data))
  ELSE Eff(<<>>, <<>>, <<>>, Return(Undefined))

useGetProjectionData(props, args, res) ==
  IF Truthy(props.scheme) /\ Truthy(props.projectSlug)
  THEN Eff(<<"/elements/projection">>, <<>>, <<>>,
           IF ~ErrTruthy(res.error) THEN Return(res.data) ELSE Return(Undefined))
  ELSE Eff(<<>>, <<>>, <<>>, Return(Undefined))

useGetQueue(props, args, res) ==
  Eff(<<"/queue">>, <<>>, <<>>,
      IF ~ErrTruthy(res.error) THEN Return(res.data) ELSE Return(Undefined))

\* me as an operation of the client: one GET /users/me
meCall(props, args, res) == Eff(<<"/users/me">>, <<>>, <<>>, me(res))

(***************************************************************************)
(* The hook functions of each revision of core/api.ts                      *)
(***************************************************************************)
ExportOps == {"getFeaturesFile", "getAnnotationsFile", "getPredictionsFile"}
ReadOps == {"useUserProjects", "useProject", "useStatistics", "useGetProjectionData",
            "useGetQueue", "useTableElements"}
UserOps == {"createUser", "deleteUser", "addUserAuth", "deleteUserAuth"}
MutatingOps ==
  {"createProject", "createTestSet", "deleteProject", "deleteScheme", "addScheme",
   "deleteFeature", "getNextElementId", "getElementById", "addLabel", "deleteLabel",
   "renameLabel", "updateSimpleModel", "updateProjection",
   "addFeature", "addAnnotation", "addTableAnnotations", "trainBertModel",
   "renameBertModel", "deleteBertModel", "computeModelPrediction", "postReconciliate"}
    \cup UserOps \cup ExportOps
CoreOps ==
  {"createProject", "deleteProject", "deleteScheme", "addScheme", "deleteFeature",
   "getNextElementId", "getElementById", "addLabel", "renameLabel",
   "useUserProjects", "useProject", "me"}
OpsOf(rev) == IF rev = "core" THEN CoreOps ELSE MutatingOps \cup ReadOps \cup {"me"}

invoke_core(op, props, args, res) ==
  CASE op = "deleteFeature" -> useDeleteFeature_core(props, args, res)
    [] op = "getNextElementId" -> useGetNextElementId_core(props, args, res)
    [] op = "getElementById" -> useGetElementById_core(props, args, res)
    [] op = "addLabel" -> useAddLabel_core(props, args, res)
    [] op = "renameLabel" -> useRenameLabel_core(props, args, res)
    [] op = "createProject" -> useCreateProject(props, args, res)
    [] op = "deleteProject" -> useDeleteProject(props, args, res)
    [] op = "deleteScheme" -> useDeleteScheme(props, args, res)
    [] op = "addScheme" -> useAddScheme(props, args, res)
    [] op = "useUserProjects" -> useUserProjects(props, args, res)
    [] op = "useProject" -> useProject(props, args, res)
    [] op = "me" -> meCall(props, args, res)

invoke(rev, op, props, args, res) ==
  IF rev = "core" THEN invoke_core(op, props, args, res)
  ELSE CASE op = "createProject" -> useCreateProject(props, args, res)
         [] op = "createTestSet" -> useCreateTestSet(props, args, res)
         [] op = "deleteProject" -> useDeleteProject(props, args, res)
         [] op = "deleteScheme" -> useDeleteScheme(props, args, res)
         [] op = "addScheme" -> useAddScheme(props, args, res)
         [] op = "deleteFeature" -> useDeleteFeature(props, args, res)
         [] op = "getNextElementId" -> useGetNextElementId(props, args, res)
         [] op = "getElementById" -> useGetElementById(props, args, res)
         [] op = "addLabel" -> useAddLabel(props, args, res)
         [] op = "deleteLabel" -> useDeleteLabel(props, args, res)
         [] op = "addFeature" -> useAddFeature(props, args, res)
         [] op = "addAnnotation" -> useAddAnnotation(props, args, res)
         [] op = "addTableAnnotations" -> useAddTableAnnotations(props, args, res)
         [] op = "createUser" -> useCreateUser(props, args, res)
         [] op = "deleteUser" -> useDeleteUser(props, args, res)
         [] op = "addUserAuth" -> useAddUserAuthProject(props, args, res)
         [] op = "deleteUserAuth" -> useDeleteUserAuthProject(props, args, res)
         [] op = "trainBertModel" -> useTrainBertModel(props, args, res)
         [] op = "renameBertModel" -> useRenameBertModel(props, args, res)
         [] op = "deleteBertModel" -> useDeleteBertModel(props, args, res)
         [] op = "computeModelPrediction" -> useComputeModelPrediction(props, args, res)
         [] op = "postReconciliate" -> useReconciliate(props, args, res)
         [] op = "useTableElements" -> useTableElements(props, args, res)
         [] op = "renameLabel" -> useRenameLabel(props, args, res)
         [] op = "updateSimpleModel" -> useUpdateSimpleModel(props, args, res)
         [] op = "updateProjection" -> useUpdateProjection(props, args, res)
         [] op = "getFeaturesFile" -> useGetFeaturesFile(props, args, res)
         [] op = "getAnnotationsFile" -> useGetAnnotationsFile(props, args, res)
         [] op = "getPredictionsFile" -> useGetPredictionsFile(props, args, res)
         [] op = "useUserProjects" -> useUserProjects(props, args, res)
         [] op = "useProject" -> useProject(props, args, res)
         [] op = "useStatistics" -> useStatistics(props, args, res)
         [] op = "useGetProjectionData" -> useGetProjectionData(props, args, res)
         [] op = "useGetQueue" -> useGetQueue(props, args, res)
         [] op = "me" -> meCall(props, args, res)

(***************************************************************************)
(* State                                                                   *)
(***************************************************************************)
VARIABLES
  revision,      \* the revision of core/api.ts that is built
  localStorage,  \* the item stored under 'activeTigger.auth'
  lastRequest,   \* the last outgoing request, before and after interception
  authOutcome,   \* the last call of login, logout or me and its outcome
  hookOp,        \* the hook function held by the component
  hookProps,     \* the parameters the hook was given: projectSlug, scheme
  calls,         \* the invocations of the hook function, in order of start
  memoHook,      \* the read hook held by the component
  memoProps,     \* the parameters the read hook is rendered with
  fetchTrigger,  \* the fetch trigger of the read hook
  memoDeps,      \* the dependency list of the last run of the useAsyncMemo effect
  invocations,   \* the invocations of the producer, in order of start
  asyncState,    \* the state committed by useAsyncMemo
  mounted,       \* ProjectionManagement is mounted
  currentProjection,     \* appContext.currentProjection
  availableProjections,  \* project.projections.available[username]
  trainingUsers,         \* the keys of project.projections.training
  refreshDeps,   \* the dependency list of the last run of the refresh effect
  history,       \* the latest responses committed, and whether a poll followed the last one
  formComponent,       \* the form component that is mounted
  availableFeatures,   \* the property availableFeatures of the form component
  formNewProjection,   \* the state formNewProjection of ProjectionManagement
  formValues,          \* the values held by useForm
  pending,             \* the runs of onSubmit that await the response of their request
  lastSubmit,          \* the last run of onSubmit, up to its await
  lastCompletion,      \* the last response to a request of onSubmit and what followed it
  selectionConfig,     \* the selection configuration of the annotation page
  phase,               \* the phase of the annotation page
  elementHistory,      \* the history of the elements already seen
  nextCall,            \* the last call of getNextElementId
  files,               \* ImportPredictionDataset: the watched value of the files input
  loadedData,          \* ImportPredictionDataset: the state data (the loaded data)
  loads,               \* the calls of loadFile, in order of start
  importForm,          \* the id and text columns held by the form
  submits,             \* the number of submissions of the import form
  predicting,          \* the calls of predict that have not resolved
  importRun,           \* what the last handler of ImportPredictionDataset did
  selectedElement,     \* ProjectionManagement: the state selectedElement
  elementCalls,        \* the calls of setSelectedId, in order
  pageInfo,            \* useTableElements: the state pageInfo
  total,               \* useTableElements: the state total
  tableRequests,       \* the requests of GET /elements/table, in order
  availableLabels,     \* SelectionManagement: the state availableLabels
  currentModel,        \* SelectionManagement: currentModel of useGetSimpleModel
  rendered             \* the values the effects of SelectionManagement last ran with

authVars == <<localStorage, lastRequest, authOutcome>>
hookVars == <<hookOp, hookProps, calls>>
memoVars == <<memoHook, memoProps, fetchTrigger, memoDeps, invocations, asyncState>>
pollVars == <<mounted, currentProjection, availableProjections, trainingUsers, refreshDeps,
              history>>
formVars == <<formComponent, availableFeatures, formNewProjection, formValues, pending,
              lastSubmit, lastCompletion>>
selectVars == <<selectionConfig, phase, elementHistory, nextCall>>
importVars == <<files, loadedData, loads, importForm, submits, predicting, importRun>>
elementVars == <<selectedElement, elementCalls>>
tableVars == <<pageInfo, total, tableRequests>>
labelVars == <<availableLabels, currentModel, rendered>>
pageVars == <<importVars, elementVars, tableVars, labelVars>>
vars == <<revision, authVars, hookVars, memoVars, pollVars, formVars, selectVars, pageVars>>

NoResult == [status |-> 0, data |-> Undefined, error |-> ErrUndefined]

\* api.GET / api.POST: the request as it leaves the client
intercepted(op, headers) ==
  [op |-> op, before |-> headers,
   after |-> onRequest(revision, headers, localStorage), item |-> localStorage]

NoProps == [projectSlug |-> Undefined, scheme |-> Undefined]
NoMemoProps == [projectSlug |-> Undefined, scheme |-> Undefined, projectState |-> Undefined]
Loading == [status |-> "loading", data |-> Undefined, inv |-> 0]

\* no authentication call yet
AuthIdle ==
  /\ lastRequest = [op |-> "none", before |-> NoHeaders, after |-> NoHeaders, item |-> NoItem]
  /\ authOutcome = [op |-> "none", out |-> NoOutcome, res |-> NoResult, itemBefore |-> NoItem]

\* no hook mounted
HooksIdle ==
  /\ hookOp = "none"
  /\ hookProps = NoProps
  /\ calls = <<>>

\* no read hook mounted
MemoIdle ==
  /\ memoHook = "none"
  /\ memoProps = NoMemoProps
  /\ fetchTrigger = FALSE
  /\ memoDeps = <<>>
  /\ invocations = <<>>
  /\ asyncState = Loading

NoHistory == [responses |-> <<>>, polled |-> FALSE]

\* ProjectionManagement is not mounted
PollIdle ==
  /\ mounted = FALSE
  /\ currentProjection = Undefined
  /\ availableProjections = Undefined
  /\ trainingUsers = {}
  /\ refreshDeps = <<>>
  /\ history = NoHistory

NoSubmit == [formData |-> Undefined, notes |-> <<>>, http |-> <<>>, body |-> Undefined,
             out |-> NoOutcome, awaited |-> FALSE]

\* no form component mounted
FormIdle ==
  /\ formComponent = "none"
  /\ availableFeatures = {}
  /\ formNewProjection = FALSE
  /\ formValues = Undefined
  /\ pending = 0
  /\ lastSubmit = NoSubmit
  /\ lastCompletion = [status |-> 0, notes |-> <<>>]

\* no annotation page mounted
SelectIdle ==
  /\ selectionConfig = Undefined
  /\ phase = "train"
  /\ elementHistory = <<>>
  /\ nextCall = [pc |-> "idle", http |-> <<>>, body |-> Undefined, notes |-> <<>>,
                 out |-> NoOutcome]

NoFiles == [seq |-> 0, file |-> Undefined]
NoRun == [handler |-> "none", notes |-> <<>>, loadFile |-> FALSE, predict |-> FALSE]

\* ImportPredictionDataset is not mounted
ImportIdle ==
  /\ files = NoFiles
  /\ loadedData = Undefined
  /\ loads = <<>>
  /\ importForm = [id |-> Undefined, text |-> Undefined]
  /\ submits = 0
  /\ predicting = 0
  /\ importRun = NoRun

\* no vizualisation with a selected element
ElementIdle ==
  /\ selectedElement = Undefined
  /\ elementCalls = <<>>

\* useTableElements is not mounted
TableIdle ==
  /\ pageInfo = Undefined
  /\ total = 0
  /\ tableRequests = <<>>

\* SelectionManagement is not mounted
LabelIdle ==
  /\ availableLabels = <<>>
  /\ currentModel = Undefined
  /\ rendered = Undefined

PagesIdle ==
  /\ ImportIdle
  /\ ElementIdle
  /\ TableIdle
  /\ LabelIdle

InitAuth ==
  /\ revision \in Revisions
  /\ localStorage \in StoredItems
  /\ AuthIdle
  /\ HooksIdle
  /\ MemoIdle
  /\ PollIdle
  /\ FormIdle
  /\ SelectIdle
  /\ PagesIdle

(***************************************************************************)
(* Authentication flows                                                    *)
(***************************************************************************)
\* login(params) answered by res, followed by the persistence of the token
Login(username, res) ==
  LET out == login(res)
  IN /\ lastRequest' = intercepted("login", loginHeaders)
     /\ authOutcome' = [op |-> "login", out |-> out, res |-> res, itemBefore |-> localStorage]
     /\ localStorage' = persistLogin(out, username, localStorage)
     /\ UNCHANGED <<revision, formVars, selectVars, pageVars, hookVars, memoVars, pollVars>>

\* logout(token) answered with a status, followed by the clearing of the credential
Logout(token, status) ==
  LET out == logout(status)
  IN /\ lastRequest' = intercepted("logout", tokenHeaders(token))
     /\ authOutcome' = [op |-> "logout", out |-> out,
                        res |-> [NoResult EXCEPT !.status = status], itemBefore |-> localStorage]
     /\ localStorage' = clearOnLogout(out, localStorage)
     /\ UNCHANGED <<revision, formVars, selectVars, pageVars, hookVars, memoVars, pollVars>>

\* me(token) answered by res
Me(token, res) ==
  /\ lastRequest' = intercepted("me", tokenHeaders(token))
  /\ authOutcome' = [op |-> "me", out |-> me(res), res |-> res, itemBefore |-> localStorage]
  /\ UNCHANGED <<revision, formVars, selectVars, pageVars, localStorage, hookVars, memoVars, pollVars>>

\* an interception that drops the persisted credential
HookRequestClearing ==
  /\ lastRequest' = intercepted("hook", NoHeaders)
  /\ localStorage' = NoItem
  /\ UNCHANGED <<revision, formVars, selectVars, pageVars, authOutcome, hookVars, memoVars, pollVars>>

\* a domain operation hook issues a request without headers of its own
HookRequest ==
  /\ lastRequest' = intercepted("hook", NoHeaders)
  /\ UNCHANGED <<revision, formVars, selectVars, pageVars, localStorage, authOutcome, hookVars, memoVars, pollVars>>

NextAuth ==
  \/ \E u \in Usernames, res \in ApiResults(Tokens) : Login(u, res)
  \/ \E t \in Tokens, s \in Statuses : Logout(t, s)
  \/ \E t \in Tokens, res \in ApiResults(Usernames) : Me(t, res)
  \/ HookRequest

SpecAuth == InitAuth /\ [][NextAuth]_vars

(***************************************************************************)
(* Claims on the auth middleware and the authentication entry points       *)
(***************************************************************************)
\* C2: the interception step never overwrites a header set by the caller:
\* every header present on the request before interception has the same
\* value after it
C2_NeverOverwritesCallerHeaders ==
  \A h \in HeaderNames :
    lastRequest.before[h] # NullHeader => lastRequest.after[h] = lastRequest.before[h]

C4_InjectedIffCredentialStored ==
  lastRequest.op # "none" =>
    /\ lastRequest.item = NoItem => lastRequest.after = lastRequest.before
    /\ (lastRequest.before["Authorization"] = NullHeader)
         => ((lastRequest.after["Authorization"] # NullHeader) <=> (lastRequest.item # NoItem))
    /\ (lastRequest.item # NoItem /\ lastRequest.before["Authorization"] = NullHeader)
         => lastRequest.after["Authorization"] = "Bearer " \o lastRequest.item[2]

\* a token returned by login and persisted is carried by the next hook request
C4_Witness ==
  /\ authOutcome.op = "login"
  /\ authOutcome.out.kind = "return"
  /\ lastRequest.op = "hook"
  /\ lastRequest.after["Authorization"] = "Bearer " \o authOutcome.out.value[1]

C15_CredentialUnchangedOutsideLoginLogout ==
  [][lastRequest'.op \notin {"login", "logout"} => localStorage' = localStorage]_vars

\* after a successful login the credential is stored, and a request of a hook
\* has been intercepted with that credential, which is still stored
C15_Witness ==
  /\ authOutcome.op = "login"
  /\ authOutcome.out.kind = "return"
  /\ lastRequest.op = "hook"
  /\ lastRequest.item # NoItem
  /\ lastRequest.after["Authorization"] # NullHeader
  /\ localStorage = lastRequest.item

(***************************************************************************)
(* Invocations of a hook function                                          *)
(***************************************************************************)
Slugs == {Undefined, Some(""), Some("p1")}
Schemes == {Undefined, Some("s1")}
Names == {Undefined, Some("n1")}
Formats == {"csv", "parquet"}
HookResults == {r \in ApiResults({"d1"}) : r.status \in {200, 500}}

ArgsOf(op) ==
  [name : Names, format : IF op \in ExportOps THEN Formats ELSE {"csv"}]

InitHooks ==
  /\ revision \in Revisions
  /\ localStorage = NoItem
  /\ AuthIdle
  /\ hookOp \in OpsOf(revision)
  /\ hookProps \in [projectSlug : Slugs, scheme : Schemes]
  /\ calls = <<>>
  /\ MemoIdle
  /\ PollIdle
  /\ FormIdle
  /\ SelectIdle
  /\ PagesIdle

\* a call made while another one is pending is dropped without a request
InvokeDropping(args) ==
  LET eff == invoke(revision, hookOp, hookProps, args, NoResult)
      busy == \E j \in 1..Len(calls) : calls[j].pc = "requesting"
  IN /\ Len(calls) < MaxCalls
     /\ calls' = Append(calls,
          IF eff.http = <<>> \/ busy
          THEN [args |-> args, pc |-> "done", http |-> <<>>, notes |-> <<>>,
                saves |-> <<>>, also |-> <<>>, out |-> Return(Undefined), res |-> NoResult]
          ELSE [args |-> args, pc |-> "requesting", http |-> <<eff.http[1]>>, notes |-> <<>>,
                saves |-> <<>>, also |-> <<>>, out |-> NoOutcome, res |-> NoResult])
     /\ UNCHANGED <<revision, formVars, selectVars, pageVars, authVars, hookOp, hookProps, memoVars, pollVars>>

\* the function is called: its validation runs and, if it passes, the request
\* is issued and the invocation waits for the response
Invoke(args) ==
  LET eff == invoke(revision, hookOp, hookProps, args, NoResult)
  IN /\ Len(calls) < MaxCalls
     /\ calls' = Append(calls,
          IF eff.http = <<>>
          THEN [args |-> args, pc |-> "done", http |-> <<>>, notes |-> eff.notes,
                saves |-> eff.saves, also |-> eff.also, out |-> eff.out, res |-> NoResult]
          ELSE [args |-> args, pc |-> "requesting", http |-> <<eff.http[1]>>, notes |-> <<>>,
                saves |-> <<>>, also |-> <<>>, out |-> NoOutcome, res |-> NoResult])
     /\ UNCHANGED <<revision, formVars, selectVars, pageVars, authVars, hookOp, hookProps, memoVars, pollVars>>

\* the response of invocation i arrives and the function runs to its end
Respond(i, res) ==
  LET eff == invoke(revision, hookOp, hookProps, calls[i].args, res)
  IN /\ i \in 1..Len(calls)
     /\ calls[i].pc = "requesting"
     /\ calls' = [calls EXCEPT ![i] =
          [args |-> calls[i].args, pc |-> "done", http |-> eff.http, notes |-> eff.notes,
           saves |-> eff.saves, also |-> eff.also, out |-> eff.out, res |-> res]]
     /\ UNCHANGED <<revision, formVars, selectVars, pageVars, authVars, hookOp, hookProps, memoVars, pollVars>>

NextHooks ==
  \/ \E args \in ArgsOf(hookOp) : Invoke(args)
  \/ \E i \in 1..MaxCalls, res \in HookResults : Respond(i, res)

SpecHooks == InitHooks /\ [][NextHooks]_vars

(***************************************************************************)
(* Claims on the domain operation hooks                                    *)
(***************************************************************************)
\* the parameters a hook function needs before it can contact the server
RequiredOf(op) ==
  CASE op \in {"getNextElementId", "getElementById", "addLabel", "deleteLabel", "renameLabel"}
         -> {"projectSlug", "scheme"}
    [] op \in {"updateSimpleModel", "updateProjection"} -> {"projectSlug", "scheme", "name"}
    [] op \in {"addAnnotation", "addTableAnnotations", "postReconciliate"}
         -> {"projectSlug", "scheme"}
    [] op = "trainBertModel" -> {"projectSlug", "scheme", "name"}
    [] op \in {"renameBertModel", "deleteBertModel", "computeModelPrediction"}
         -> {"projectSlug"}
    [] op \in {"deleteFeature", "addFeature", "addUserAuth", "deleteUserAuth"}
         -> {"projectSlug", "name"}
    [] op = "deleteUser" -> {"name"}
    [] op = "deleteScheme" -> {"scheme"}
    [] op = "addScheme" -> {"name"}
    [] op \in ExportOps -> {"projectSlug"}
    [] OTHER -> {}

MissingRequired(op, props, args) ==
  \/ "projectSlug" \in RequiredOf(op) /\ ~Truthy(props.projectSlug)
  \/ "scheme" \in RequiredOf(op) /\ ~Truthy(props.scheme)
  \/ "name" \in RequiredOf(op) /\ ~Truthy(args.name)

\* C6: a mutating hook function invoked while a required parameter is missing
\* issues no request, and getNextElementId then emits exactly one error
\* notification
C6_MissingParameterNoNetworkCall ==
  \A i \in 1..Len(calls) :
    (hookOp \in MutatingOps /\ MissingRequired(hookOp, hookProps, calls[i].args))
    => /\ calls[i].http = <<>>
       /\ hookOp = "getNextElementId"
            => (Len(calls[i].notes) = 1 /\ calls[i].notes[1].type = "error")

\* the artifact kind of each export operation
ArtifactKind(op) ==
  CASE op = "getFeaturesFile" -> "features"
    [] op = "getAnnotationsFile" -> "annotations"
    [] op = "getPredictionsFile" -> "predictions"

\* C9: an export operation answered by a blob saves that blob exactly once,
\* under the name <artifact-kind>.<format>; answered by an error (or not yet
\* answered, or not issued) it saves nothing
C9_ExportSavesUnderKindAndFormat ==
  hookOp \in ExportOps =>
    \A i \in 1..Len(calls) :
      IF calls[i].pc = "done" /\ calls[i].http # <<>> /\ ~ErrTruthy(calls[i].res.error)
      THEN calls[i].saves =
             <<[data |-> calls[i].res.data,
                name |-> ArtifactKind(hookOp) \o "." \o calls[i].args.format]>>
      ELSE calls[i].saves = <<>>

\* a features export answered by a blob is saved as features.parquet and a
\* second one answered by an error is not saved
C9_Witness ==
  /\ hookOp = "getFeaturesFile"
  /\ Len(calls) = 2
  /\ calls[1].pc = "done" /\ Len(calls[1].saves) = 1
  /\ calls[1].saves[1].name = "features.parquet"
  /\ calls[2].pc = "done" /\ ErrTruthy(calls[2].res.error)

ThrowingOps == {"me", "createProject", "createTestSet", "useUserProjects"}

C11_FailureReportedAndFalsy ==
  \A i \in 1..Len(calls) :
    (hookOp \in MutatingOps \ ThrowingOps /\ calls[i].pc = "done" /\ calls[i].http # <<>>
       /\ ErrTruthy(calls[i].res.error))
    => /\ \E k \in 1..Len(calls[i].notes) : calls[i].notes[k].type = "error"
       /\ calls[i].out.kind = "return"
       /\ ~Truthy(calls[i].out.value)

AlsoOf(op, res) ==
  CASE op \in {"createUser", "deleteUser"} -> <<"reFetchUsers">>
    [] op \in {"addUserAuth", "deleteUserAuth"} -> <<"reFetchUsersAuth">>
    [] op = "useTableElements" /\ ~ErrTruthy(res.error) -> <<"setTotal">>
    [] OTHER -> <<>>

C14_InvocationsIndependent ==
  [][(hookOp \in MutatingOps /\ revision = "bundle") =>
       /\ Len(calls') >= Len(calls)
       /\ \A j \in 1..Len(calls) :
            /\ calls[j].pc = "done" => calls'[j] = calls[j]
            /\ calls'[j] # calls[j] =>
                 /\ \A k \in (1..Len(calls')) \ {j} : k <= Len(calls) /\ calls'[k] = calls[k]
                 /\ calls'[j].pc = "done"
                 /\ calls'[j].args = calls[j].args
                 /\ calls'[j].out =
                      invoke(revision, hookOp, hookProps, calls[j].args, calls'[j].res).out
       /\ Len(calls') > Len(calls) =>
            LET c == calls'[Len(calls')]
            IN IF MissingRequired(hookOp, hookProps, c.args)
               THEN c.pc = "done" /\ c.http = <<>>
               ELSE c.pc = "requesting" /\ Len(c.http) = 1]_vars

\* two updateProjection calls are pending together, the second is answered
\* first (by an error) and the first is answered afterwards (successfully)
C14_Witness ==
  /\ hookOp = "updateProjection"
  /\ Len(calls) = 2
  /\ calls[1].pc = "done" /\ ~ErrTruthy(calls[1].res.error)
  /\ Len(calls[1].notes) = 1
  /\ calls[2].pc = "done" /\ ErrTruthy(calls[2].res.error)
  /\ calls[2].notes = <<>>

(***************************************************************************)
(* Async-resource hook: useAsyncMemo(producer, deps) inside a read hook    *)
(***************************************************************************)
MemoHooks == {"useProject", "useStatistics", "useGetProjectionData", "useGetQueue"}
MemoResults ==
  {r \in ApiResults({"d1", "d2"}) : r.status \in {200, 500} /\ r.error \in {ErrUndefined, ErrObject(Undefined)}}

PropsOf(hook) ==
  CASE hook = "useGetQueue" ->
         [projectSlug : {Undefined}, scheme : {Undefined}, projectState : {Undefined, Some("st1")}]
    [] hook = "useProject" ->
         [projectSlug : {Undefined, Some("p1")}, scheme : {Undefined}, projectState : {Undefined}]
    [] OTHER ->
         [projectSlug : {Undefined, Some("p1")}, scheme : {Undefined, Some("s1")},
          projectState : {Undefined}]

\* the dependency list each read hook hands to useAsyncMemo
depsOf(hook, props, trigger) ==
  CASE hook = "useProject" -> <<props.projectSlug, trigger>>
    [] hook = "useStatistics" -> <<props.projectSlug, props.scheme, trigger>>
    [] hook = "useGetProjectionData" -> <<trigger, props.scheme>>
    [] hook = "useGetQueue" -> <<trigger, props.projectState>>

\* the producer of a read hook, run with the props of its render
producer(hook, props, res) ==
  invoke("bundle", hook, [projectSlug |-> props.projectSlug, scheme |-> props.scheme],
         [name |-> Undefined, format |-> "csv"], res)

\* a new invocation supersedes (cancels) the pending ones
useAsyncMemo_start(invs, props) ==
  Append([i \in 1..Len(invs) |-> [invs[i] EXCEPT !.cancelled = TRUE]],
         [props |-> props, pc |-> "pending", cancelled |-> FALSE, res |-> NoResult,
          late |-> FALSE])

\* a commit that does not discard the result of a superseded invocation
useAsyncMemoCommitStale(state, inv, i, out) ==
  IF Throws(out) THEN [status |-> "error", data |-> Undefined, inv |-> i]
  ELSE [status |-> "success", data |-> out.value, inv |-> i]

\* the result of an invocation is committed unless the invocation was superseded
useAsyncMemo_commit(state, inv, i, out) ==
  IF inv.cancelled THEN state
  ELSE IF Throws(out) THEN [status |-> "error", data |-> Undefined, inv |-> i]
  ELSE [status |-> "success", data |-> out.value, inv |-> i]

\* getAsyncMemoData: the resolved value or undefined
getAsyncMemoData(state) == IF state.status = "success" THEN state.data ELSE Undefined

\* invocation i settles after an invocation started later than it
SettlesLate(i) == \E j \in (i + 1)..Len(invocations) : invocations[j].pc = "resolved"

InitMemo ==
  /\ revision = "bundle"
  /\ localStorage = NoItem
  /\ AuthIdle
  /\ HooksIdle
  /\ memoHook \in MemoHooks
  /\ memoProps \in PropsOf(memoHook)
  /\ fetchTrigger = FALSE
  /\ memoDeps = depsOf(memoHook, memoProps, FALSE)
  /\ invocations = useAsyncMemo_start(<<>>, memoProps)
  /\ asyncState = Loading
  /\ PollIdle
  /\ FormIdle
  /\ SelectIdle
  /\ PagesIdle

\* the component is rendered with other parameters
SetProps(props) ==
  /\ props # memoProps
  /\ memoProps' = props
  /\ UNCHANGED <<revision, formVars, selectVars, pageVars, authVars, hookVars, pollVars, memoHook, fetchTrigger, memoDeps, invocations,
                 asyncState>>

\* reFetch: setFetchTrigger((f) => !f)
reFetch ==
  /\ fetchTrigger' = ~fetchTrigger
  /\ UNCHANGED <<revision, formVars, selectVars, pageVars, authVars, hookVars, pollVars, memoHook, memoProps, memoDeps, invocations,
                 asyncState>>

\* the effect of useAsyncMemo runs after a render whose dependencies changed
RunMemoEffect ==
  /\ depsOf(memoHook, memoProps, fetchTrigger) # memoDeps
  /\ Len(invocations) < MaxInvocations
  /\ memoDeps' = depsOf(memoHook, memoProps, fetchTrigger)
  /\ invocations' = useAsyncMemo_start(invocations, memoProps)
  /\ asyncState' = Loading
  /\ UNCHANGED <<revision, formVars, selectVars, pageVars, authVars, hookVars, pollVars, memoHook, memoProps, fetchTrigger>>

\* the promise of invocation i settles: its request is answered by res
Resolve(i, res) ==
  LET inv == invocations[i]
      eff == producer(memoHook, inv.props, res)
  IN /\ i \in 1..Len(invocations)
     /\ inv.pc = "pending"
     /\ eff.http = <<>> => res = NoResult
     /\ eff.http # <<>> => res \in MemoResults
     /\ invocations' = [invocations EXCEPT ![i] =
          [inv EXCEPT !.pc = "resolved", !.res = res, !.late = SettlesLate(i)]]
     /\ asyncState' = useAsyncMemo_commit(asyncState, inv, i, eff.out)
     /\ UNCHANGED <<revision, formVars, selectVars, pageVars, authVars, hookVars, pollVars, memoHook, memoProps, fetchTrigger, memoDeps>>

NextMemo ==
  \/ \E props \in PropsOf(memoHook) : SetProps(props)
  \/ reFetch
  \/ RunMemoEffect
  \/ \E i \in 1..MaxInvocations, res \in MemoResults \cup {NoResult} : Resolve(i, res)

SpecMemo == InitMemo /\ [][NextMemo]_vars

(***************************************************************************)
(* Claims on the async-resource hook                                       *)
(***************************************************************************)
\* C1: whatever the dependency changes, the refetch toggles and the order in
\* which the pending invocations resolve, a committed value is the result of
\* the most recently started invocation
C1_CommittedIsLatestStarted ==
  asyncState.status # "loading" =>
    /\ asyncState.inv = Len(invocations)
    /\ invocations[asyncState.inv].pc = "resolved"
    /\ asyncState.status = "success" =>
         asyncState.data =
           producer(memoHook, invocations[asyncState.inv].props,
                    invocations[asyncState.inv].res).out.value

\* the first invocation resolves after the second one, with another result,
\* and the committed value is the result of the second
C1_Witness ==
  /\ Len(invocations) = 2
  /\ invocations[2].pc = "resolved"
  /\ invocations[1].late
  /\ invocations[1].res.data = Some("d1")
  /\ invocations[2].res.data = Some("d2")
  /\ asyncState = [status |-> "success", data |-> Some("d2"), inv |-> 2]

(***************************************************************************)
(* ProjectionManagement: useGetProjectionData and the refresh effect       *)
(***************************************************************************)
ProjectionIds == {"pA", "pB"}
Projections == {Undefined} \cup {Some(p) : p \in ProjectionIds}
PollResults ==
  {r \in ApiResults(ProjectionIds) :
     r.status \in {200, 500} /\ r.error \in {ErrUndefined, ErrObject(Undefined)}}

\* the user of the auth context, read from the persisted credential
authenticatedUser ==
  IF localStorage = NoItem THEN Undefined ELSE Some(JSONparse(localStorage).username)

\* projectionData as rendered: undefined while pending, null after a failed
\* fetch, else the object of the committed invocation
projectionDataOf(state) ==
  CASE state.status = "success" /\ state.data # Undefined ->
         [id |-> state.inv, status |-> state.data]
    [] state.status = "success" -> [id |-> -1, status |-> Undefined]
    [] OTHER -> [id |-> 0, status |-> Undefined]

\* a refresh effect that compares the fetched status, not the marker, with the
\* available projection
refreshEffectOnData(user, current, available, projectionData) ==
  LET first == Truthy(user) /\ ~Truthy(current) /\ Truthy(available)
      changed == Truthy(user) /\ projectionData.status # available
  IN [reFetch |-> first \/ changed,
      currentProjection |-> IF first \/ changed THEN projectionData.status ELSE current]

\* a refresh effect without the case of a changed projection
refreshEffectFirstOnly(user, current, available, projectionData) ==
  LET first == Truthy(user) /\ ~Truthy(current) /\ Truthy(available)
  IN [reFetch |-> first,
      currentProjection |-> IF first THEN projectionData.status ELSE current]

\* one run of the refresh effect on the values of its render
refreshEffect(user, current, available, projectionData) ==
  LET first == Truthy(user) /\ ~Truthy(current) /\ Truthy(available)
      changed == Truthy(user) /\ Truthy(current) /\ current # available
  IN [reFetch |-> first \/ changed,
      currentProjection |-> IF first \/ changed THEN projectionData.status ELSE current]

projectionTraining(user, training) ==
  IF Truthy(user) THEN user[1] \in training ELSE FALSE

renderedDeps == <<availableProjections, currentProjection, projectionDataOf(asyncState)>>

\* a render is pending: the dependencies of an effect changed since its last run
Dirty ==
  /\ mounted
  /\ \/ depsOf(memoHook, memoProps, fetchTrigger) # memoDeps
     \/ renderedDeps # refreshDeps

InitPoll ==
  /\ revision = "bundle"
  /\ localStorage \in {JSONstringify([username |-> u, access_token |-> "t1"]) : u \in Usernames}
  /\ AuthIdle
  /\ HooksIdle
  /\ memoHook = "useGetProjectionData"
  /\ memoProps = [projectSlug |-> Some("p1"), scheme |-> Some("s1"), projectState |-> Undefined]
  /\ fetchTrigger = FALSE
  /\ memoDeps = depsOf(memoHook, memoProps, FALSE)
  /\ invocations = useAsyncMemo_start(<<>>, memoProps)
  /\ asyncState = Loading
  /\ mounted = TRUE
  /\ currentProjection \in Projections
  /\ availableProjections \in Projections
  /\ trainingUsers \in SUBSET Usernames
  /\ refreshDeps = <<>>
  /\ history = [responses |-> <<>>, polled |-> TRUE]
  /\ FormIdle
  /\ SelectIdle
  /\ PagesIdle

\* the answers to superseded requests are discarded by useAsyncMemo_commit whenever they
\* arrive: they are taken as arrived when the request is superseded
Settled(invs) == [i \in 1..Len(invs) |-> [invs[i] EXCEPT !.pc = "resolved"]]

\* one render of the component followed by its effects, in the order of the hooks
Render ==
  LET projectionData == projectionDataOf(asyncState)
      deps == depsOf(memoHook, memoProps, fetchTrigger)
      runMemo == deps # memoDeps
      runRefresh == renderedDeps # refreshDeps
      eff == refreshEffect(authenticatedUser, currentProjection, availableProjections,
                           projectionData)
  IN /\ Dirty
     /\ runMemo => Len(invocations) < MaxPolls
     /\ memoDeps' = deps
     /\ invocations' = IF runMemo THEN useAsyncMemo_start(Settled(invocations), memoProps)
                       ELSE invocations
     /\ asyncState' = IF runMemo THEN Loading ELSE asyncState
     /\ history' = IF runMemo THEN [history EXCEPT !.polled = TRUE] ELSE history
     /\ refreshDeps' = renderedDeps
     /\ fetchTrigger' = IF runRefresh /\ eff.reFetch THEN ~fetchTrigger ELSE fetchTrigger
     /\ currentProjection' = IF runRefresh THEN eff.currentProjection ELSE currentProjection
     /\ UNCHANGED <<revision, formVars, selectVars, pageVars, authVars, hookVars, memoHook, memoProps, mounted,
                    availableProjections, trainingUsers>>

\* the polling scenario: three consecutive polls and the statuses they return
Scenario == <<"running", "running", "completed">>

\* the latest Len(Scenario) entries of a sequence
LastOf(seq) ==
  IF Len(seq) > Len(Scenario) THEN SubSeq(seq, Len(seq) - Len(Scenario) + 1, Len(seq)) ELSE seq

\* the status a committed response shows, against the projection the project announces
observed(res) ==
  IF ErrTruthy(res.error) THEN "failed"
  ELSE IF res.data = availableProjections THEN "completed" ELSE "running"

\* the request of the latest invocation is answered once the pending renders are done
PollResponse(res) ==
  LET i == Len(invocations)
      inv == invocations[i]
      eff == producer(memoHook, inv.props, res)
  IN /\ mounted
     /\ ~Dirty
     /\ inv.pc = "pending"
     /\ invocations' = [invocations EXCEPT ![i] = [inv EXCEPT !.pc = "resolved"]]
     /\ asyncState' = useAsyncMemo_commit(asyncState, inv, i, eff.out)
     /\ history' = [responses |-> LastOf(Append(history.responses, observed(res))),
                     polled |-> FALSE]
     /\ UNCHANGED <<revision, formVars, selectVars, pageVars, authVars, hookVars, memoHook, memoProps, fetchTrigger, memoDeps,
                    mounted, currentProjection, availableProjections, trainingUsers,
                    refreshDeps>>

\* the project of the app context is refreshed: project.projections is a new object
ProjectUpdated(available, training) ==
  /\ mounted
  /\ ~Dirty
  /\ availableProjections' = available
  /\ trainingUsers' = training
  /\ refreshDeps' = <<>>
  /\ UNCHANGED <<revision, formVars, selectVars, pageVars, authVars, hookVars, memoVars, mounted, currentProjection, history>>

\* the component unmounts: the cleanup of useAsyncMemo supersedes the pending invocations
Unmount ==
  /\ mounted
  /\ mounted' = FALSE
  /\ invocations' = [i \in 1..Len(invocations) |-> [invocations[i] EXCEPT !.cancelled = TRUE]]
  /\ UNCHANGED <<revision, formVars, selectVars, pageVars, authVars, hookVars, memoHook, memoProps, fetchTrigger, memoDeps,
                 asyncState, currentProjection, availableProjections, trainingUsers,
                 refreshDeps, history>>

NextPoll ==
  \/ Render
  \/ \E res \in PollResults : PollResponse(res)
  \/ \E available \in Projections, training \in SUBSET Usernames :
       ProjectUpdated(available, training)
  \/ Unmount

SpecPoll == InitPoll /\ [][NextPoll]_vars

(***************************************************************************)
(* Claims on the polling of ProjectionManagement                           *)
(***************************************************************************)
PollingStopped ==
  /\ mounted
  /\ ~Dirty
  /\ invocations[Len(invocations)].pc = "resolved"

\* C7 (polling scenario): when the three latest consecutive polls returned
\* running, running, completed, no further poll is issued after the third
\* response
C7_NoPollAfterCompletedResponse ==
  (mounted /\ history.responses = Scenario) => ~history.polled

\* C8: while the component is mounted, polling is stopped (no render pending,
\* no request in flight) only when completion has been observed, i.e. the
\* marker currentProjection equals the projection the project announces for
\* the user; after a failed poll or a poll showing another status the read is
\* issued again, whatever the number of polls already made
C8_PollingStopsOnlyOnCompletion ==
  PollingStopped => currentProjection = availableProjections

\* three polls in a row failed and the read has been issued again
C8_Witness ==
  /\ mounted
  /\ history.responses = <<"failed", "failed", "failed">>
  /\ history.polled
  /\ invocations[Len(invocations)].pc = "pending"
  /\ Truthy(availableProjections)

\* C13: every call of reFetch forces a recomputation: after the call the
\* dependency list differs from the one of the last run of the producer, so
\* that a new invocation is due, whatever other calls of reFetch were made
\* since the last render
C13_EveryReFetchForcesRecomputation ==
  [][fetchTrigger' # fetchTrigger =>
       depsOf(memoHook, memoProps', fetchTrigger') # memoDeps']_vars

\* C16: reFetchProjectionData is called exactly by a run of the refresh
\* effect in which (a) no marker is set and a projection is available for the
\* user, or (b) the marker is set and differs from the available projection;
\* in particular no step calls it while the marker equals the available
\* projection, whatever new projectionData arrives
C16_RefetchOnlyWhileMarkerDiffers ==
  [][LET ran == mounted /\ refreshDeps # renderedDeps /\ refreshDeps' = renderedDeps
         a == ~Truthy(currentProjection) /\ Truthy(availableProjections)
         b == Truthy(currentProjection) /\ currentProjection # availableProjections
     IN /\ (fetchTrigger' # fetchTrigger) <=> (ran /\ (a \/ b))
        /\ currentProjection = availableProjections => fetchTrigger' = fetchTrigger]_vars

\* the marker was set from a response equal to the available projection, the
\* request made in that run returned another projectionData, and nothing is
\* refetched: no render is pending and no request is in flight
C16_Witness ==
  /\ PollingStopped
  /\ Truthy(currentProjection)
  /\ currentProjection = availableProjections
  /\ Len(history.responses) >= 2
  /\ history.responses[Len(history.responses) - 1] = "completed"
  /\ history.responses[Len(history.responses)] = "running"
  /\ ~history.polled
  /\ asyncState.status = "success"

(***************************************************************************)
(* The forms of ProjectionManagement (first and second version of          *)
(* src/unnamed/part_003) and of SimpleModelManagement                      *)
(***************************************************************************)
MaxPending == 2
ProjectionForms == {"ProjectionManagement", "ProjectionManagement_2"}

\* defaultValues of useForm in ProjectionManagement; min_dist 0.1 is kept as text
projectionDefaults ==
  [method |-> "umap",
   features |-> Undefined,
   params |-> [n_components |-> 2, perplexity |-> 30, learning_rate |-> "auto",
               init |-> "random", metric |-> "cosine", n_neighbors |-> 15,
               min_dist |-> "0.1"]]

\* defaultValues of the second version: features is the empty list
projectionDefaults_2 == [projectionDefaults EXCEPT !.features = Some({})]

\* defaultValues of useForm in SimpleModelManagement: the line of features is commented out
simpleModelDefaults ==
  [model |-> "liblinear",
   features |-> Undefined,
   params |-> [cost |-> 1, C |-> 32, n_neighbors |-> 3, alpha |-> 1, n_estimators |-> 500,
               max_features |-> Undefined]]

\* filterFeatures of ProjectionManagement: the features whose label matches /sbert|fasttext/i
filterFeatures(features) == features \cap {"sbert", "fasttext"}

\* the Controller of features is mounted: only the first version of ProjectionManagement
\* gives it a defaultValue, which becomes the value of a field that has none
mountController(component, values, features) ==
  IF component = "ProjectionManagement" /\ values.features = Undefined
  THEN [values EXCEPT !.features = Some(filterFeatures(features))]
  ELSE values

\* the 'compute new projection' button is rendered
buttonRendered(component, training) ==
  component = "ProjectionManagement" /\ ~training

\* the form is rendered
formRendered(component, training, open) ==
  IF component = "ProjectionManagement" THEN ~training /\ open ELSE TRUE

\* relevantParams of onSubmit with the keys of the two methods exchanged
relevantParamsSwapped(selectedMethod) ==
  IF selectedMethod = "umap"
  THEN {"perplexity", "n_components", "learning_rate", "init"}
  ELSE IF selectedMethod = "tsne"
       THEN {"n_neighbors", "min_dist", "metric", "n_components"}
       ELSE {}

\* relevantParams of onSubmit
relevantParams(selectedMethod) ==
  IF selectedMethod = "tsne"
  THEN {"perplexity", "n_components", "learning_rate", "init"}
  ELSE IF selectedMethod = "umap"
       THEN {"n_neighbors", "min_dist", "metric", "n_components"}
       ELSE {}

\* pick of lodash: the members of object whose key is listed
pick(object, keys) == [k \in keys \cap DOMAIN object |-> object[k]]

\* the body posted by updateProjection
updateProjectionBody(formData) ==
  [method |-> formData.method, features |-> formData.features, params |-> formData.params]

\* the body posted by updateSimpleModel
updateSimpleModelBody(scheme, formData) ==
  [features |-> formData.features, scheme |-> scheme, model |-> formData.model,
   params |-> formData.params, standardize |-> TRUE]

\* a run of an onSubmit handler up to its await: what it notified, the request it made
OnSubmitRun(formData, notes, http, body, out, awaited) ==
  [formData |-> Some(formData), notes |-> notes, http |-> http, body |-> body, out |-> out,
   awaited |-> awaited]

\* onSubmit of ProjectionManagement (both versions), up to the response of updateProjection;
\* a list, empty or not, and an object are truthy
onSubmit(props, formData, selectedMethod, watchedFeatures) ==
  LET params == pick(formData.params, relevantParams(selectedMethod))
      data == [formData EXCEPT !.params = params]
      valid == Truthy(props.projectSlug) /\ data.features # Undefined /\ Truthy(props.scheme)
  IN IF watchedFeatures = Undefined
     THEN OnSubmitRun(formData, <<>>, <<>>, Undefined, TypeError, FALSE)
     ELSE IF Cardinality(watchedFeatures[1]) = 0
          THEN OnSubmitRun(formData,
                           <<Note("error", "Please select at least one feature")>>,
                           <<>>, Undefined, Return(Undefined), FALSE)
          ELSE IF valid
               THEN OnSubmitRun(formData, <<>>, <<"/elements/projection/compute">>,
                                Some(updateProjectionBody(data)), NoOutcome, TRUE)
               ELSE OnSubmitRun(formData, <<>>, <<>>, Undefined, Return(Undefined), TRUE)

\* onSubmit of SimpleModelManagement, up to the response of updateSimpleModel
onSubmit_SimpleModel(props, formData, watchedFeatures) ==
  LET valid == /\ Truthy(props.projectSlug) /\ formData.features # Undefined
               /\ Truthy(props.scheme) /\ formData.model # ""
  IN IF watchedFeatures = Undefined
     THEN OnSubmitRun(formData, <<>>, <<>>, Undefined, TypeError, FALSE)
     ELSE IF Cardinality(watchedFeatures[1]) = 0
          THEN OnSubmitRun(formData,
                           <<Note("error", "Please select at least one feature")>>,
                           <<>>, Undefined, Return(Undefined), FALSE)
          ELSE IF valid
               THEN OnSubmitRun(formData, <<>>, <<"/models/simplemodel">>,
                                Some(updateSimpleModelBody(props.scheme, formData)),
                                NoOutcome, TRUE)
               ELSE OnSubmitRun(formData, <<>>, <<>>, Undefined, Return(Undefined), TRUE)

\* what onSubmit does once its await returned: the first version of ProjectionManagement
\* closes the form and resets it to the defaultValues of useForm
afterAwait(component, open, values) ==
  IF component = "ProjectionManagement"
  THEN [formNewProjection |-> FALSE, formValues |-> projectionDefaults]
  ELSE [formNewProjection |-> open, formValues |-> values]

\* the notifications of the hook function once the response arrived
completionNotes(component, props, res) ==
  LET args == [name |-> Some("n1"), format |-> "csv"]
  IN IF component = "SimpleModelManagement"
     THEN useUpdateSimpleModel(props, args, res).notes
     ELSE useUpdateProjection(props, args, res).notes

InitForm ==
  /\ revision = "bundle"
  /\ localStorage = JSONstringify([username |-> "alice", access_token |-> "t1"])
  /\ AuthIdle
  /\ formComponent \in ProjectionForms \cup {"SimpleModelManagement"}
  /\ hookOp = IF formComponent = "SimpleModelManagement" THEN "updateSimpleModel"
              ELSE "updateProjection"
  /\ hookProps \in [projectSlug : {Some("p1")}, scheme : Schemes]
  /\ calls = <<>>
  /\ MemoIdle
  /\ mounted = FALSE
  /\ currentProjection = Undefined
  /\ availableProjections = Undefined
  /\ trainingUsers \in SUBSET Usernames
  /\ refreshDeps = <<>>
  /\ history = NoHistory
  /\ availableFeatures \in {{"tfidf"}, {"sbert", "tfidf"}}
  /\ formNewProjection = FALSE
  /\ formValues = CASE formComponent = "ProjectionManagement" -> projectionDefaults
                     [] formComponent = "ProjectionManagement_2" -> projectionDefaults_2
                     [] OTHER -> simpleModelDefaults
  /\ pending = 0
  /\ lastSubmit = NoSubmit
  /\ lastCompletion = [status |-> 0, notes |-> <<>>]
  /\ SelectIdle
  /\ PagesIdle

FormRendered ==
  formRendered(formComponent, projectionTraining(authenticatedUser, trainingUsers),
               formNewProjection)

FormFrame == <<revision, selectVars, pageVars, authVars, hookVars, memoVars, mounted, currentProjection,
               availableProjections, refreshDeps, history, formComponent, availableFeatures>>

\* the button 'Compute new projection' is clicked: the form opens or closes
ToggleForm ==
  /\ buttonRendered(formComponent, projectionTraining(authenticatedUser, trainingUsers))
  /\ formNewProjection' = ~formNewProjection
  /\ formValues' = IF ~formNewProjection
                   THEN mountController(formComponent, formValues, availableFeatures)
                   ELSE formValues
  /\ UNCHANGED <<FormFrame, trainingUsers, pending, lastSubmit, lastCompletion>>

\* a method is chosen in the select of the projection form
SetMethod(method) ==
  /\ formComponent \in ProjectionForms
  /\ FormRendered
  /\ formValues' = [formValues EXCEPT !.method = method]
  /\ UNCHANGED <<FormFrame, trainingUsers, formNewProjection, pending, lastSubmit,
                 lastCompletion>>

\* the selection of features changes: onChange of the Controller
SetFeatures(selectedOptions) ==
  /\ FormRendered
  /\ formValues' = [formValues EXCEPT !.features = Some(selectedOptions)]
  /\ UNCHANGED <<FormFrame, trainingUsers, formNewProjection, pending, lastSubmit,
                 lastCompletion>>

\* a parameter of the selected method is edited
SetParams(perplexity, n_components) ==
  /\ formComponent \in ProjectionForms
  /\ FormRendered
  /\ perplexity # formValues.params.perplexity => formValues.method = "tsne"
  /\ n_components # formValues.params.n_components => formValues.method \in {"tsne", "umap"}
  /\ formValues' = [formValues EXCEPT !.params.perplexity = perplexity,
                                      !.params.n_components = n_components]
  /\ UNCHANGED <<FormFrame, trainingUsers, formNewProjection, pending, lastSubmit,
                 lastCompletion>>

\* the form is submitted: handleSubmit runs onSubmit with the values of the form
Submit ==
  LET run == IF formComponent = "SimpleModelManagement"
             THEN onSubmit_SimpleModel(hookProps, formValues, formValues.features)
             ELSE onSubmit(hookProps, formValues, formValues.method, formValues.features)
      after == afterAwait(formComponent, formNewProjection, formValues)
      returned == run.awaited /\ run.http = <<>>
  IN /\ FormRendered
     /\ pending < MaxPending
     /\ lastSubmit' = run
     /\ pending' = IF run.http # <<>> THEN pending + 1 ELSE pending
     /\ formNewProjection' = IF returned THEN after.formNewProjection ELSE formNewProjection
     /\ formValues' = IF returned THEN after.formValues ELSE formValues
     /\ UNCHANGED <<FormFrame, trainingUsers, lastCompletion>>

\* the response to a request of onSubmit arrives: the hook function notifies and returns,
\* then onSubmit goes on after its await
FormResponse(res) ==
  LET after == afterAwait(formComponent, formNewProjection, formValues)
  IN /\ pending > 0
     /\ pending' = pending - 1
     /\ lastCompletion' = [status |-> res.status,
                           notes |-> completionNotes(formComponent, hookProps, res)]
     /\ formNewProjection' = after.formNewProjection
     /\ formValues' = after.formValues
     /\ UNCHANGED <<FormFrame, trainingUsers, lastSubmit>>

\* the project of the app context is refreshed with the users whose projection is computed
ProjectRefreshed(training) ==
  /\ formComponent \in ProjectionForms
  /\ training # trainingUsers
  /\ trainingUsers' = training
  /\ UNCHANGED <<FormFrame, formNewProjection, formValues, pending, lastSubmit,
                 lastCompletion>>

NextForm ==
  \/ ToggleForm
  \/ \E method \in {"", "tsne", "umap"} : SetMethod(method)
  \/ \E selectedOptions \in SUBSET availableFeatures : SetFeatures(selectedOptions)
  \/ \E perplexity \in {30, 50}, n_components \in {2, 3} :
       SetParams(perplexity, n_components)
  \/ Submit
  \/ \E res \in HookResults : FormResponse(res)
  \/ \E training \in SUBSET Usernames : ProjectRefreshed(training)

SpecForm == InitForm /\ [][NextForm]_vars

(***************************************************************************)
(* Claims on the forms                                                     *)
(***************************************************************************)
\* C17: in ProjectionManagement a compute request is started only while the
\* projection is not 'in progress' (the user is no key of
\* project.projections.training, so that the button and the form are
\* rendered), and never while an earlier request of the same component is
\* still in progress
C17_NoComputeWhileInProgress ==
  [][(formComponent = "ProjectionManagement" /\ pending' > pending)
       => /\ ~projectionTraining(authenticatedUser, trainingUsers)
          /\ pending = 0]_vars

NoFeatureSelected(features) == features = Undefined \/ features = Some({})

\* C18: a submission of the simple-model form or of the projection form with
\* no feature selected emits exactly one error notification, 'Please select
\* at least one feature', and issues no network call, whatever the state of
\* the features field, a field never touched since mount included
C18_NoFeatureOneErrorNoCall ==
  (lastSubmit.formData # Undefined /\ NoFeatureSelected(lastSubmit.formData[1].features))
    => /\ lastSubmit.notes = <<Note("error", "Please select at least one feature")>>
       /\ lastSubmit.http = <<>>

\* C19: the params posted by the projection form hold exactly the keys of the
\* selected method (tsne: perplexity, n_components, learning_rate, init;
\* umap: n_neighbors, min_dist, metric, n_components; no key for another
\* method), each with the value the form holds for it
C19_ParamsOfSelectedMethodOnly ==
  (formComponent \in ProjectionForms /\ lastSubmit.body # Undefined)
    => LET sent == lastSubmit.body[1].params
           form == lastSubmit.formData[1]
       IN /\ form.method = "tsne"
               => DOMAIN sent = {"perplexity", "n_components", "learning_rate", "init"}
          /\ form.method = "umap"
               => DOMAIN sent = {"n_neighbors", "min_dist", "metric", "n_components"}
          /\ form.method \notin {"tsne", "umap"} => DOMAIN sent = {}
          /\ \A k \in DOMAIN sent : sent[k] = form.params[k]
          /\ lastSubmit.body[1].method = form.method

\* a tsne projection is requested with an edited perplexity: the body carries
\* it and none of the umap parameters the form still holds
C19_Witness ==
  /\ formComponent \in ProjectionForms
  /\ lastSubmit.body # Undefined
  /\ lastSubmit.formData[1].method = "tsne"
  /\ lastSubmit.formData[1].params.perplexity = 50
  /\ lastSubmit.formData[1].params.n_neighbors = 15
  /\ lastSubmit.body[1].params.perplexity = 50
  /\ "n_neighbors" \notin DOMAIN lastSubmit.body[1].params

(***************************************************************************)
(* The request of getNextElementId                                         *)
(***************************************************************************)
\* the selection configurations: label, filter, frameSelection and frame are optional
SelectionConfigs ==
  [mode : {"deterministic", "maxprob"}, sample : {"untagged", "all"},
   label : {Undefined, Some("l1")}, filter : {Undefined, Some("f1")},
   frameSelection : {Undefined, JsTrue, JsFalse}, frame : {Undefined, Some(<<0, 1, 0, 1>>)}]

\* body of POST /elements/next in core/api.ts; a member that is not written is undefined
getNextElementIdBody_core(props, config) ==
  [scheme |-> props.scheme,
   selection |-> config.mode,
   sample |-> config.sample,
   tag |-> config.label,
   filter |-> Undefined,
   history |-> <<>>,
   frame |-> Undefined]

\* body of POST /elements/next in the bundled revision
getNextElementIdBody(props, config, elements, currentPhase) ==
  [scheme |-> props.scheme,
   selection |-> IF currentPhase = "test" THEN "test" ELSE config.mode,
   sample |-> config.sample,
   tag |-> config.label,
   filter |-> config.filter,
   history |-> elements,
   frame |-> IF Truthy(config.frameSelection) THEN config.frame ELSE Some(<<>>)]

InitSelect ==
  /\ revision \in Revisions
  /\ localStorage = NoItem
  /\ AuthIdle
  /\ hookOp = "getNextElementId"
  /\ hookProps \in [projectSlug : Slugs, scheme : Schemes]
  /\ calls = <<>>
  /\ MemoIdle
  /\ PollIdle
  /\ FormIdle
  /\ PagesIdle
  /\ selectionConfig \in SelectionConfigs
  /\ phase \in {"train", "test"}
  /\ elementHistory \in {<<>>, <<"e1">>}
  /\ nextCall = [pc |-> "idle", http |-> <<>>, body |-> Undefined, notes |-> <<>>,
                 out |-> NoOutcome]

\* getNextElementId is called: after its validation the request is posted
GetNextElementId ==
  LET eff == invoke(revision, hookOp, hookProps, [name |-> Undefined, format |-> "csv"],
                    NoResult)
  IN /\ nextCall.pc = "idle"
     /\ nextCall' =
          IF eff.http = <<>>
          THEN [pc |-> "done", http |-> <<>>, body |-> Undefined, notes |-> eff.notes,
                out |-> eff.out]
          ELSE [pc |-> "requesting", http |-> eff.http,
                body |-> Some(IF revision = "core"
                              THEN getNextElementIdBody_core(hookProps, selectionConfig)
                              ELSE getNextElementIdBody(hookProps, selectionConfig,
                                                        elementHistory, phase)),
                notes |-> <<>>, out |-> NoOutcome]
     /\ UNCHANGED <<revision, pageVars, authVars, hookVars, memoVars, pollVars, formVars,
                    selectionConfig, phase, elementHistory>>

\* the response arrives: getNextElementId returns res.data?.element_id
NextElementResponse(res) ==
  LET eff == invoke(revision, hookOp, hookProps, [name |-> Undefined, format |-> "csv"], res)
  IN /\ nextCall.pc = "requesting"
     /\ nextCall' = [nextCall EXCEPT !.pc = "done", !.notes = eff.notes, !.out = eff.out]
     /\ UNCHANGED <<revision, pageVars, authVars, hookVars, memoVars, pollVars, formVars,
                    selectionConfig, phase, elementHistory>>

NextSelect ==
  \/ GetNextElementId
  \/ \E res \in HookResults : NextElementResponse(res)

SpecSelect == InitSelect /\ [][NextSelect]_vars

\* C20: when projectSlug and currentScheme are set, getNextElementId posts to
\* /elements/next a body whose selection is 'test' in the phase 'test' and
\* selectionConfig.mode otherwise, whose frame is selectionConfig.frame when
\* frameSelection is true and the empty list otherwise, and whose history,
\* sample, tag and filter are the ones it was given
C20_NextElementBody ==
  (nextCall.pc # "idle" /\ Truthy(hookProps.projectSlug) /\ Truthy(hookProps.scheme))
    => /\ nextCall.http = <<"/elements/next">>
       /\ nextCall.body # Undefined
       /\ LET body == nextCall.body[1]
          IN /\ body.selection = IF phase = "test" THEN "test" ELSE selectionConfig.mode
             /\ body.frame = IF selectionConfig.frameSelection = JsTrue
                             THEN selectionConfig.frame ELSE Some(<<>>)
             /\ body.history = elementHistory
             /\ body.sample = selectionConfig.sample
             /\ body.tag = selectionConfig.label
             /\ body.filter = selectionConfig.filter

(***************************************************************************)
(* ImportPredictionDataset: the file effect and onSubmit                   *)
(***************************************************************************)
MaxFiles == 2
MaxSubmits == 2
maxSizeMo == 50
maxSize == maxSizeMo * 1024 * 1024

\* the files the user picks: two files that may be loaded (the second of exactly maxSize
\* bytes) and one that is too big
ImportFiles ==
  {[name |-> "A", size |-> 1024], [name |-> "B", size |-> maxSize],
   [name |-> "C", size |-> maxSize + 1]}

\* loadFile(file) resolves to null or to the data of the file
loadFile(file) == {Undefined, Some([filename |-> file.name])}

\* the file effect without the test of the size
fileEffectNoLimit(fileList) ==
  [notes |-> <<>>, loadFile |-> fileList.file # Undefined]

\* the file effect, up to the call of loadFile
fileEffect(fileList) ==
  IF fileList.file # Undefined
  THEN IF fileList.file.size > maxSize
       THEN [notes |-> <<Note("error", "File is too big (only file less than 50 are allowed)")>>,
             loadFile |-> FALSE]
       ELSE [notes |-> <<>>, loadFile |-> TRUE]
  ELSE [notes |-> <<>>, loadFile |-> FALSE]

\* the callback given to loadFile(file).then
onLoaded(result, current) ==
  IF result = Undefined
  THEN [notes |-> <<Note("error", "Error reading the file")>>, data |-> current]
  ELSE [notes |-> <<>>, data |-> result]

\* an onSubmit that calls predict whenever data is loaded
onSubmitImportUnchecked(current, formData) ==
  [notes |-> <<>>, predict |-> current # Undefined]

\* onSubmit of ImportPredictionDataset, up to the await of predict
onSubmit_Import(current, formData) ==
  IF current # Undefined
  THEN IF ~Truthy(formData.id) \/ ~Truthy(formData.text)
       THEN [notes |-> <<Note("error", "Please fill all the fields")>>, predict |-> FALSE]
       ELSE [notes |-> <<>>, predict |-> TRUE]
  ELSE [notes |-> <<>>, predict |-> FALSE]

ImportFrame == <<revision, authVars, hookVars, memoVars, pollVars, formVars, selectVars,
                 elementVars, tableVars, labelVars>>

InitImport ==
  /\ revision = "bundle"
  /\ localStorage = NoItem
  /\ AuthIdle
  /\ HooksIdle
  /\ MemoIdle
  /\ PollIdle
  /\ FormIdle
  /\ SelectIdle
  /\ PagesIdle

\* the user picks a file (or none): the watched value changes and the file effect runs
SelectFile(file) ==
  LET fileList == [seq |-> files.seq + 1, file |-> file]
      eff == fileEffect(fileList)
  IN /\ files.seq < MaxFiles
     /\ files' = fileList
     /\ loads' = IF eff.loadFile
                 THEN Append(loads, [file |-> file, pc |-> "loading", result |-> Undefined])
                 ELSE loads
     /\ importRun' = [handler |-> "files", notes |-> eff.notes, loadFile |-> eff.loadFile,
                      predict |-> FALSE]
     /\ UNCHANGED <<ImportFrame, loadedData, importForm, submits, predicting>>

\* the promise of the i-th call of loadFile resolves
Loaded(i, result) ==
  LET eff == onLoaded(result, loadedData)
  IN /\ i \in 1..Len(loads)
     /\ loads[i].pc = "loading"
     /\ result \in loadFile(loads[i].file)
     /\ loads' = [loads EXCEPT ![i] = [@ EXCEPT !.pc = "resolved", !.result = result]]
     /\ loadedData' = eff.data
     /\ importRun' = [handler |-> "loaded", notes |-> eff.notes, loadFile |-> FALSE,
                      predict |-> FALSE]
     /\ UNCHANGED <<ImportFrame, files, importForm, submits, predicting>>

\* the columns for id and text are chosen in the selects, rendered once data is loaded
SetColumns(id, text) ==
  /\ loadedData # Undefined
  /\ importForm # [id |-> id, text |-> text]
  /\ importForm' = [id |-> id, text |-> text]
  /\ importRun' = [handler |-> "change", notes |-> <<>>, loadFile |-> FALSE, predict |-> FALSE]
  /\ UNCHANGED <<ImportFrame, files, loadedData, loads, submits, predicting>>

\* the form is submitted: onSubmit runs up to its await
SubmitImport ==
  LET run == onSubmit_Import(loadedData, importForm)
  IN /\ submits < MaxSubmits
     /\ submits' = submits + 1
     /\ predicting' = IF run.predict THEN predicting + 1 ELSE predicting
     /\ importRun' = [handler |-> "submit", notes |-> run.notes, loadFile |-> FALSE,
                      predict |-> run.predict]
     /\ UNCHANGED <<ImportFrame, files, loadedData, loads, importForm>>

\* a call of predict resolves: onSubmit goes on with setData(null) and reset()
Predicted ==
  /\ predicting > 0
  /\ predicting' = predicting - 1
  /\ loadedData' = Undefined
  /\ importForm' = [id |-> Undefined, text |-> Undefined]
  /\ files' = [files EXCEPT !.file = Undefined]
  /\ importRun' = [handler |-> "predicted", notes |-> <<>>, loadFile |-> FALSE,
                   predict |-> FALSE]
  /\ UNCHANGED <<ImportFrame, loads, submits>>

NextImport ==
  \/ \E file \in ImportFiles \cup {Undefined} : SelectFile(file)
  \/ \E i \in 1..MaxFiles, result \in {Undefined} \cup {Some([filename |-> f.name]) : f \in ImportFiles} :
       Loaded(i, result)
  \/ \E id \in {Undefined, Some("c1")}, text \in {Undefined, Some(""), Some("c2")} :
       SetColumns(id, text)
  \/ SubmitImport
  \/ Predicted

SpecImport == InitImport /\ [][NextImport]_vars

C22_PredictOnlyOnCompleteForm ==
  [][/\ submits' # submits
          => /\ loadedData = Undefined
                  => /\ importRun'.notes = <<>>
                     /\ predicting' = predicting
                     /\ <<loadedData', importForm', files', loads'>>
                          = <<loadedData, importForm, files, loads>>
             /\ (loadedData # Undefined
                   /\ (importForm.id \in {Undefined, Some("")}
                         \/ importForm.text \in {Undefined, Some("")}))
                  => /\ Len(importRun'.notes) = 1
                     /\ importRun'.notes[1].type = "error"
                     /\ predicting' = predicting
             /\ (loadedData # Undefined
                   /\ importForm.id \notin {Undefined, Some("")}
                   /\ importForm.text \notin {Undefined, Some("")})
                  => /\ importRun'.notes = <<>>
                     /\ predicting' = predicting + 1
     /\ predicting' < predicting
          => /\ loadedData' = Undefined
             /\ importForm' = [id |-> Undefined, text |-> Undefined]]_vars

\* a call of predict made with both columns set has resolved: the data are
\* null again and the form is reset
C22_Witness ==
  /\ importRun.handler = "predicted"
  /\ submits > 0
  /\ predicting = 0
  /\ loadedData = Undefined
  /\ importForm = [id |-> Undefined, text |-> Undefined]

\* C26: after file A and then file B were selected, once both loads have
\* resolved the loaded data is the content of B, the file selected last,
\* whatever the order in which the loads resolve
C26_LastSelectedFileWins ==
  (/\ submits = 0
   /\ Len(loads) = 2
   /\ \A i \in 1..2 : loads[i].pc = "resolved" /\ loads[i].result # Undefined)
    => loadedData = Some([filename |-> loads[2].file.name])

(***************************************************************************)
(* ProjectionManagement: setSelectedId                                     *)
(***************************************************************************)
MaxSelects == 3

\* setSelectedId(id), up to the call of getElementById
setSelectedId(id, current) ==
  IF Truthy(id)
  THEN [request |-> TRUE, selectedElement |-> current]
  ELSE [request |-> FALSE, selectedElement |-> Undefined]

\* the callback given to getElementById(id, 'train').then: element || null
onElement(out, current) ==
  IF Throws(out) THEN current ELSE out.value

\* the element a finished call of setSelectedId asks for: null with no id or
\* after a failed request
elementOf(call) ==
  IF Truthy(call.id) /\ ~ErrTruthy(call.res.error) THEN call.res.data ELSE Undefined

ElementFrame == <<authVars, hookVars, memoVars, pollVars, formVars, selectVars,
                  importVars, tableVars, labelVars>>

InitElement ==
  /\ revision \in Revisions
  /\ localStorage = NoItem
  /\ AuthIdle
  /\ HooksIdle
  /\ MemoIdle
  /\ PollIdle
  /\ FormIdle
  /\ SelectIdle
  /\ PagesIdle

\* a point of the vizualisation is selected or unselected
SetSelectedId(id) ==
  LET run == setSelectedId(id, selectedElement)
  IN /\ Len(elementCalls) < MaxSelects
     /\ selectedElement' = run.selectedElement
     /\ elementCalls' = Append(elementCalls,
                               [id |-> id, pc |-> IF run.request THEN "pending" ELSE "done",
                                res |-> NoResult])
     /\ UNCHANGED <<revision, ElementFrame>>

\* the request of the i-th call is answered and its promise settles
ElementResponse(i, res) ==
  LET call == elementCalls[i]
      eff == invoke(revision, "getElementById",
                    [projectSlug |-> Some("p1"), scheme |-> Some("s1")],
                    [name |-> call.id, format |-> "csv"], res)
  IN /\ i \in 1..Len(elementCalls)
     /\ call.pc = "pending"
     /\ res \in {r \in ApiResults({call.id[1]}) : r.status \in {200, 500}}
     /\ elementCalls' = [elementCalls EXCEPT ![i] = [@ EXCEPT !.pc = "done", !.res = res]]
     /\ selectedElement' = onElement(eff.out, selectedElement)
     /\ UNCHANGED <<revision, ElementFrame>>

NextElement ==
  \/ \E id \in {Undefined, Some("e1"), Some("e2")} : SetSelectedId(id)
  \/ \E i \in 1..MaxSelects, res \in ApiResults({"e1", "e2"}) : ElementResponse(i, res)

SpecElement == InitElement /\ [][NextElement]_vars

\* C27: after any sequence of calls of setSelectedId, once every request has
\* been answered, selectedElement is the element of the most recent call, or
\* null if that call had no id or its request failed, whatever the order in
\* which the responses arrive
C27_LastSelectionWins ==
  (/\ elementCalls # <<>>
   /\ \A i \in 1..Len(elementCalls) : elementCalls[i].pc = "done")
    => selectedElement = elementOf(elementCalls[Len(elementCalls)])

(***************************************************************************)
(* useTableElements: pageInfo, total and the range of the request          *)
(***************************************************************************)
MaxPages == 3

\* initialPage || 1 and initialPageSize || 10: null, undefined and 0 give the default
initialPageInfo(initialPage, initialPageSize) ==
  [pageIndex |-> IF initialPage \in {Undefined, Some(0)} THEN 1 ELSE initialPage[1],
   pageSize |-> IF initialPageSize \in {Undefined, Some(0)} THEN 10 ELSE initialPageSize[1]]

\* min and max of the query of GET /elements/table
tableQuery(info, tot) ==
  [min |-> (info.pageIndex - 1) * info.pageSize,
   max |-> IF info.pageIndex * info.pageSize < tot THEN info.pageIndex * info.pageSize
           ELSE tot]

\* the producer runs with the pageInfo and the total of its render
tableRequest(info, tot) ==
  [pageInfo |-> info, total |-> tot, query |-> tableQuery(info, tot), pc |-> "pending"]

TableFrame == <<revision, authVars, hookVars, memoVars, pollVars, formVars, selectVars,
                importVars, elementVars, labelVars>>

InitTable ==
  /\ revision = "bundle"
  /\ localStorage = NoItem
  /\ AuthIdle
  /\ HooksIdle
  /\ MemoIdle
  /\ PollIdle
  /\ FormIdle
  /\ SelectIdle
  /\ PagesIdle

\* the hook is mounted with a project and a scheme: the first request is made
MountTable(initialPage, initialPageSize) ==
  LET info == initialPageInfo(initialPage, initialPageSize)
  IN /\ pageInfo = Undefined
     /\ pageInfo' = info
     /\ total' = 0
     /\ tableRequests' = <<tableRequest(info, 0)>>
     /\ UNCHANGED TableFrame

\* getPage(info) is setPageInfo(info): pageInfo is a dependency, a request is made
getPage(info) ==
  /\ pageInfo # Undefined
  /\ Len(tableRequests) < MaxPages
  /\ pageInfo' = info
  /\ tableRequests' = Append(tableRequests, tableRequest(info, total))
  /\ UNCHANGED <<TableFrame, total>>

\* the i-th request is answered: the producer stores the total of a response
\* without error; total is no dependency, no request follows
TableResponse(i, res) ==
  LET eff == invoke(revision, "useTableElements",
                    [projectSlug |-> Some("p1"), scheme |-> Some("s1")],
                    [name |-> Undefined, format |-> "csv"], res)
  IN /\ i \in 1..Len(tableRequests)
     /\ tableRequests[i].pc = "pending"
     /\ tableRequests' = [tableRequests EXCEPT ![i].pc = "done"]
     /\ total' = IF eff.also # <<>> THEN res.data[1] ELSE total
     /\ UNCHANGED <<TableFrame, pageInfo>>

NextTable ==
  \/ \E initialPage \in {Undefined, Some(0), Some(1), Some(2)},
        initialPageSize \in {Undefined, Some(2)} :
       MountTable(initialPage, initialPageSize)
  \/ \E info \in [pageIndex : 1..3, pageSize : {2, 10}] : getPage(info)
  \/ \E i \in 1..MaxPages,
        res \in {r \in ApiResults({0, 3, 25}) : r.status \in {200, 500}} :
       TableResponse(i, res)

SpecTable == InitTable /\ [][NextTable]_vars

\* C25: every request of useTableElements carries a well-formed range
\* 0 <= min <= max with min = (pageIndex - 1) * pageSize and
\* max = min(pageIndex * pageSize, total), for every initial page, every page
\* asked through getPage and every total (0 before the first response)
C25_RangeWellFormed ==
  \A i \in 1..Len(tableRequests) :
    LET req == tableRequests[i]
        upper == req.pageInfo.pageIndex * req.pageInfo.pageSize
    IN /\ 0 <= req.query.min
       /\ req.query.min <= req.query.max
       /\ req.query.min = (req.pageInfo.pageIndex - 1) * req.pageInfo.pageSize
       /\ req.query.max = IF upper < req.total THEN upper ELSE req.total

(***************************************************************************)
(* SelectionManagement: availableLabels and the default label              *)
(***************************************************************************)
\* the effect on currentModel: the labels of a dichotomized model
dichotomizeEffect(model, labels) ==
  IF model # Undefined /\ Truthy(model.params.dichotomize)
  THEN <<model.params.dichotomize[1], "not-" \o model.params.dichotomize[1]>>
  ELSE labels

\* an effect that sets the first label also over a label already set
labelEffectAlways(config, labels) ==
  IF Len(labels) > 0 THEN [config EXCEPT !.label = Some(labels[1])] ELSE config

\* the effect on availableLabels and selectionConfig: the selectionConfig it gives
\* to setAppContext
labelEffect(config, labels) ==
  IF ~Truthy(config.label) /\ Len(labels) > 0
  THEN [config EXCEPT !.label = Some(labels[1])]
  ELSE config

\* the values of the current render that the effects depend on
LabelRender ==
  [currentModel |-> currentModel, availableLabels |-> availableLabels,
   selectionConfig |-> selectionConfig]

LabelFrame == <<revision, authVars, hookVars, memoVars, pollVars, formVars, phase,
                elementHistory, nextCall, importVars, elementVars, tableVars>>

\* the component is mounted: availableLabels are the labels of the current scheme,
\* currentModel is not fetched yet, no effect has run
InitLabel ==
  /\ revision = "bundle"
  /\ localStorage = NoItem
  /\ AuthIdle
  /\ HooksIdle
  /\ MemoIdle
  /\ PollIdle
  /\ FormIdle
  /\ phase = "train"
  /\ elementHistory = <<>>
  /\ nextCall = [pc |-> "idle", http |-> <<>>, body |-> Undefined, notes |-> <<>>,
                 out |-> NoOutcome]
  /\ ImportIdle
  /\ ElementIdle
  /\ TableIdle
  /\ selectionConfig \in [mode : {"deterministic", "maxprob"}, sample : {"untagged", "tagged"},
                          label : {Undefined, Some("b")}]
  /\ availableLabels \in {<<>>, <<"a", "b">>}
  /\ currentModel = Undefined
  /\ rendered = Undefined

\* after a render, the effects whose dependencies changed run with the values of
\* that render
RunEffects ==
  LET onModel == rendered = Undefined \/ rendered[1].currentModel # currentModel
      onLabels == \/ rendered = Undefined
                  \/ rendered[1].availableLabels # availableLabels
                  \/ rendered[1].selectionConfig # selectionConfig
  IN /\ rendered # Some(LabelRender)
     /\ availableLabels' = IF onModel THEN dichotomizeEffect(currentModel, availableLabels)
                           ELSE availableLabels
     /\ selectionConfig' = IF onLabels THEN labelEffect(selectionConfig, availableLabels)
                           ELSE selectionConfig
     /\ rendered' = Some(LabelRender)
     /\ UNCHANGED <<LabelFrame, currentModel>>

\* the select of the selection mode
SetMode(mode) ==
  /\ rendered = Some(LabelRender)
  /\ mode # selectionConfig.mode
  /\ selectionConfig' = [selectionConfig EXCEPT !.mode = mode]
  /\ UNCHANGED <<LabelFrame, labelVars>>

\* the select of the label, rendered for maxprob or for the tagged sample
SetLabel(label) ==
  /\ rendered = Some(LabelRender)
  /\ selectionConfig.mode = "maxprob" \/ selectionConfig.sample = "tagged"
  /\ \/ \E i \in 1..Len(availableLabels) : availableLabels[i] = label
     \/ selectionConfig.sample = "tagged" /\ label = "All"
  /\ selectionConfig.label # Some(label)
  /\ selectionConfig' = [selectionConfig EXCEPT !.label = Some(label)]
  /\ UNCHANGED <<LabelFrame, labelVars>>

\* useGetSimpleModel exposes another current model
ModelChanges(model) ==
  /\ rendered = Some(LabelRender)
  /\ model # currentModel
  /\ currentModel' = model
  /\ UNCHANGED <<LabelFrame, selectionConfig, availableLabels, rendered>>

NextLabel ==
  \/ RunEffects
  \/ \E mode \in {"deterministic", "maxprob"} : SetMode(mode)
  \/ \E label \in {"a", "b", "not-b", "All"} : SetLabel(label)
  \/ \E model \in {Undefined} \cup [params : [dichotomize : {Undefined, Some("b")}]] :
       ModelChanges(model)

SpecLabel == InitLabel /\ [][NextLabel]_vars

\* the effects of a committed render run before the next event is handled
SpecLabelFair == SpecLabel /\ WF_vars(RunEffects)

\* C23: whenever selectionConfig.label is empty and availableLabels is not,
\* eventually the label is the first available label; once the current
\* simple model is dichotomized on d the list is eventually [d, 'not-' + d];
\* and when the label is already set the effects do not change the
\* selection configuration
C23_LabelDefaultsToFirst ==
  /\ \A first \in {"a", "b"} :
       (/\ selectionConfig.label \in {Undefined, Some("")}
        /\ availableLabels # <<>>
        /\ availableLabels[1] = first)
         ~> (selectionConfig.label = Some(first))
  /\ \A d \in {"b"} :
       (currentModel # Undefined /\ currentModel.params.dichotomize = Some(d))
         ~> (availableLabels = <<d, "not-" \o d>>)
  /\ [][(rendered' # rendered /\ selectionConfig.label \notin {Undefined, Some("")})
          => selectionConfig' = selectionConfig]_vars

\* the labels of the scheme were empty, the model has been dichotomized on
\* 'b', and the effects have set the list and then the label left empty
C23_Witness ==
  /\ rendered # Undefined
  /\ rendered[1].selectionConfig.label = Undefined
  /\ rendered[1].availableLabels = <<"b", "not-b">>
  /\ availableLabels = <<"b", "not-b">>
  /\ selectionConfig.label = Some("b")
  /\ currentModel # Undefined

(***************************************************************************)
(* Claims on the read hooks and the project slug                           *)
(***************************************************************************)
\* C24: the data exposed by useGetProjectionData corresponds to the current
\* arguments: once the effect has nothing left to run, the latest fetch was
\* started with the current project slug and scheme, and a value that is
\* exposed was fetched for the current project slug (a change of the project
\* slug alone starts a new fetch and withdraws the old value)
C24_DataFollowsProjectSlug ==
  (/\ memoHook = "useGetProjectionData"
   /\ depsOf(memoHook, memoProps, fetchTrigger) = memoDeps)
    => /\ invocations[Len(invocations)].props.projectSlug = memoProps.projectSlug
       /\ invocations[Len(invocations)].props.scheme = memoProps.scheme
       /\ getAsyncMemoData(asyncState) # Undefined
            => invocations[asyncState.inv].props.projectSlug = memoProps.projectSlug

====
